---- MODULE Spec2Model ----
(***************************************************************************)
(* Simple LRU page-buffer cache (slru.c): the slot table, the control     *)
(* lock and per-buffer locks, the LRU selector, the read / write / wait   *)
(* protocol, flush and truncate, executed by concurrent backends.         *)
(***************************************************************************)
EXTENDS Integers, Sequences, FiniteSets, TLC

\* ---- bounds of the model ----
NumThreads == 2
NumSlots == 2
MaxPageIdx == 1
PageStep == 32
MaxCalls == 3
LsnGroups == 1
MaxLsn == 1
SeqSlots == 2
SeqPageIdx == 1
SeqCalls == 5
SeqHist == 1
LruSlots == 4
LruPageIdx == 4
LruCalls == 5
MaxLru == 2
TruncCalls == 4
FlushSlots == 18
FlushCalls == 1
TouchCalls == 4
LiveCalls == 3

\* ---- program constants ----
SLRU_PAGES_PER_SEGMENT == 32
MAX_FLUSH_BUFFERS == 16

Threads == 1..NumThreads
Pages == {i * PageStep : i \in 0..MaxPageIdx}
Cutoffs == Pages
NoSlot == -1

\* SlruPageStatus
SLRU_PAGE_EMPTY == "EMPTY"
SLRU_PAGE_READ_IN_PROGRESS == "READ_IN_PROGRESS"
SLRU_PAGE_VALID == "VALID"
SLRU_PAGE_WRITE_IN_PROGRESS == "WRITE_IN_PROGRESS"

VARIABLES
    num_slots,           \* shared->num_slots
    page_number,         \* shared->page_number[]
    page_status,         \* shared->page_status[]
    page_dirty,          \* shared->page_dirty[]
    page_lru_count,      \* shared->page_lru_count[]
    cur_lru_count,       \* shared->cur_lru_count
    latest_page_number,  \* shared->latest_page_number
    ControlLock,         \* shared->ControlLock: mode held by each backend
    buffer_locks,        \* shared->buffer_locks[]: mode held by each backend
    page_buffer,         \* shared->page_buffer[]: the page image in each slot
    group_lsn,           \* shared->group_lsn[]: per slot, one LSN per group
    disk,                \* the segment files: segno -> (page in segment -> image)
    wal_flushed,         \* the LSN up to which XLogFlush has flushed the WAL
    th,                  \* each backend's position, arguments and locals
    gh,                  \* per-call observations: locks taken, I/O done
    redirtied,           \* per slot: dirtied by a client since its write began
    calls                \* operations started so far

shmem == <<num_slots, page_number, page_status, page_dirty, page_lru_count,
           cur_lru_count, latest_page_number>>
vars == <<num_slots, page_number, page_status, page_dirty, page_lru_count,
          cur_lru_count, latest_page_number, ControlLock, buffer_locks,
          page_buffer, group_lsn, disk, wal_flushed,
          th, gh, redirtied, calls>>

Slots == 0..(num_slots - 1)

\* ---- int arithmetic: 32 bits, two's complement ----
INT_MAX == 2147483647
INT_MIN == -INT_MAX - 1
\* (int32) (a - b) for ints a and b, the wrap-around computed without leaving
\* the 32-bit range
Sub32(a, b) ==
    IF (a >= 0) = (b >= 0) THEN a - b
    ELSE IF a >= 0
    THEN IF a - INT_MAX > b
         THEN (((a - INT_MAX) - 1) - b) - INT_MAX - 1
         ELSE a - b
    ELSE IF a - INT_MIN < b
         THEN (((a - INT_MIN) - b) + INT_MAX) + 1
         ELSE a - b
\* a % b of C for b > 0: the remainder has the sign of a
CRem(a, b) == IF a >= 0 THEN a % b ELSE -((-a) % b)

\* The client-supplied page order ctl->PagePrecedes: (int32) (a - b) < 0,
\* which is a < b on page numbers less than 2^31 apart.
PagePrecedes(a, b) == Sub32(a, b) < 0

\* ---- page images and segment files ----
ZeroImage == "zero"
DataImage == "data"
Images == {ZeroImage, DataImage}
NoFiles == [segno \in {} |-> <<>>]
Max(S) == CHOOSE x \in S : \A y \in S : x >= y
SegNo(pageno) == pageno \div SLRU_PAGES_PER_SEGMENT
\* variant: every page of a segment at the start of its file
RPageNo_SegStart(pageno) == 0

RPageNo(pageno) == pageno % SLRU_PAGES_PER_SEGMENT
\* the pages of a segment file up to its end; a page never written is a hole
FileLen(f) == IF DOMAIN f = {} THEN 0 ELSE Max(DOMAIN f) + 1
\* open(O_CREAT): the file is created empty if it does not exist
OpenCreate(d, segno) ==
    IF segno \in DOMAIN d THEN d
    ELSE [x \in DOMAIN d \cup {segno} |->
             IF x = segno THEN [y \in {} |-> ZeroImage] ELSE d[x]]
\* lseek and write of one page at its offset in its segment file
StorePage(d, pageno, image) ==
    LET d1 == OpenCreate(d, SegNo(pageno))
        f == d1[SegNo(pageno)]
        f2 == [y \in DOMAIN f \cup {RPageNo(pageno)} |->
                  IF y = RPageNo(pageno) THEN image ELSE f[y]]
    IN  [d1 EXCEPT ![SegNo(pageno)] = f2]
\* unlink
DropFiles(d, segnos) == [x \in DOMAIN d \ segnos |-> d[x]]

\* ---- LWLocks: a lock is the mode each backend holds it in ----
NoHolder == [u \in Threads |-> "none"]
LockFree(lock) == \A u \in Threads : lock[u] = "none"
LockNoExclusive(lock) == \A u \in Threads : lock[u] # "exclusive"
LWLockAcquire(lock, t, mode) == [lock EXCEPT ![t] = mode]
LWLockRelease(lock, t) == [lock EXCEPT ![t] = "none"]
\* what LWLockAcquire waits for
CanAcquire(lock, mode) ==
    IF mode = "exclusive" THEN LockFree(lock) ELSE LockNoExclusive(lock)

\* ---- backend records ----
\* what a caller has noted of its calls that returned: the last calls, the
\* pages it created and left untouched, and those it then wrote out
NoHist == [log |-> <<>>, zeroed |-> {}, stored |-> {}]

IdleRec ==
    [pc |-> "idle", stack |-> <<>>, op |-> "none", pageno |-> 0,
     write_ok |-> FALSE, valid |-> FALSE, slotno |-> NoSlot,
     wslot |-> NoSlot, wpageno |-> 0, wio |-> NoSlot, ok |-> TRUE,
     fslot |-> 0, cutoff |-> 0, lockHeld |-> FALSE, new_lru |-> 0,
     max_lsn |-> 0, fdata |-> <<>>, errpageno |-> 0,
     arg |-> 0, refused |-> FALSE, dropfail |-> FALSE, dirtied |-> FALSE,
     did_read |-> FALSE, hist |-> NoHist, shot |-> "none",
     lru_reset |-> FALSE, errcause |-> "none", in_recovery |-> "unread"]

NoObs == [excl |-> FALSE, slotlock |-> FALSE, io |-> FALSE, inmem |-> FALSE]

SetTh(t, r) == th' = [th EXCEPT ![t] = r]
\* return to the caller's label
Return(r) == [r EXCEPT !.pc = Head(r.stack), !.stack = Tail(r.stack)]
\* call a routine at label l, to come back at the labels in back
Call(r, l, back) == [r EXCEPT !.pc = l, !.stack = back \o r.stack]
Observe(t, f) ==
    gh' = [gh EXCEPT ![t] = [g \in DOMAIN @ |->
              IF g \in f /\ th[t].op = "readonly" THEN TRUE ELSE @[g]]]

\* SimpleLruZeroLSNs: the LSNs of one slot, all zero
SimpleLruZeroLSNs == [g \in 1..LsnGroups |-> 0]

\* SimpleLruInit(ctl, name, nslots, nlsns, ctllock, subdir): every slot EMPTY
\* and clean with LRU count 0; the shared area is zero-filled, so that
\* cur_lru_count, latest_page_number and page_number[] start at 0.
Init ==
    /\ num_slots \in 1..NumSlots
    /\ page_number = [s \in Slots |-> 0]
    /\ page_status = [s \in Slots |-> SLRU_PAGE_EMPTY]
    /\ page_dirty = [s \in Slots |-> FALSE]
    /\ page_lru_count = [s \in Slots |-> 0]
    /\ cur_lru_count = 0
    /\ latest_page_number = 0
    /\ ControlLock = NoHolder
    /\ buffer_locks = [s \in Slots |-> NoHolder]
    /\ page_buffer = [s \in Slots |-> ZeroImage]
    /\ group_lsn = [s \in Slots |-> SimpleLruZeroLSNs]
    /\ disk = NoFiles
    /\ wal_flushed = 0
    /\ th = [t \in Threads |-> IdleRec]
    /\ gh = [t \in Threads |-> NoObs]
    /\ redirtied = [s \in Slots |-> FALSE]
    /\ calls = 0

\* ---- SlruRecentlyUsed, executed under the exclusive control lock ----
\* result: <<cur_lru_count, page_lru_count>>
SlruRecentlyUsed(cur, lru, slotno) ==
    IF cur # lru[slotno]
    THEN <<cur + 1, [lru EXCEPT ![slotno] = cur + 1]>>
    ELSE <<cur, lru>>

\* ---- SlruSelectLRUPage: the scan for a victim ----
\* variant: equal deltas are not compared by page
BetterVictim_NoTieBreak(this_delta, best_delta, this_page_number, best_page_number) ==
    this_delta > best_delta

\* this slot is less recently used than the best so far, or as recently used
\* and further back
BetterVictim(this_delta, best_delta, this_page_number, best_page_number) ==
    \/ this_delta > best_delta
    \/ /\ this_delta = best_delta
       /\ PagePrecedes(this_page_number, best_page_number)

\* variant: a count ahead of the scan's count is left as it is
BackOffCount_Keep(count, cur_count) == count

\* "We back off the page counts, rather than trying to increase cur_count"
BackOffCount(count, cur_count) ==
    IF cur_count - count < 0 THEN cur_count ELSE count

RECURSIVE SelectScan(_, _, _, _, _, _)
SelectScan(slotno, cur_count, lru, bestslot, best_delta, best_page_number) ==
    IF slotno = num_slots
    THEN [empty |-> FALSE, slot |-> bestslot, lru |-> lru]
    ELSE IF page_status[slotno] = SLRU_PAGE_EMPTY
    THEN [empty |-> TRUE, slot |-> slotno, lru |-> lru]
    ELSE LET raw == cur_count - lru[slotno]
             lru2 == [lru EXCEPT ![slotno] = BackOffCount(@, cur_count)]
             this_delta == IF raw < 0 THEN 0 ELSE raw
             this_page_number == page_number[slotno]
         IN  IF /\ BetterVictim(this_delta, best_delta, this_page_number,
                                 best_page_number)
                /\ this_page_number # latest_page_number
             THEN SelectScan(slotno + 1, cur_count, lru2, slotno, this_delta,
                             this_page_number)
             ELSE SelectScan(slotno + 1, cur_count, lru2, bestslot, best_delta,
                             best_page_number)

\* variant: the selector does not look for the page in memory first
HoldingSlots_NoScan(pageno) == {}

\* slots already holding pageno
HoldingSlots(pageno) ==
    {s \in Slots : page_number[s] = pageno /\ page_status[s] # SLRU_PAGE_EMPTY}
Min(S) == CHOOSE x \in S : \A y \in S : x <= y


InProgress(s) ==
    page_status[s] \in {SLRU_PAGE_READ_IN_PROGRESS, SLRU_PAGE_WRITE_IN_PROGRESS}

\* ---- operations entered with the control lock held by the caller ----
Enter(t, r) ==
    /\ th[t].pc = "idle"
    /\ UNCHANGED <<page_buffer, group_lsn, disk, wal_flushed>>
    /\ CanAcquire(ControlLock, "exclusive")
    /\ ControlLock' = LWLockAcquire(ControlLock, t, "exclusive")
    /\ SetTh(t, [r EXCEPT !.hist = th[t].hist])
    /\ gh' = [gh EXCEPT ![t] = NoObs]
    /\ calls < MaxCalls
    /\ calls' = calls + 1
    /\ UNCHANGED <<shmem, buffer_locks, redirtied>>

\* SimpleLruZeroPage(ctl, pageno)
Call_Zero(t, p) ==
    /\ t \in Threads
    /\ Enter(t, [IdleRec EXCEPT !.pc = "sel", !.stack = <<"zp", "ret">>,
                             !.op = "zero", !.pageno = p])

\* SimpleLruReadPage(ctl, pageno, write_ok, xid): valid = NULL
Call_Read(t, p, w) ==
    /\ w \in BOOLEAN
    /\ Enter(t, [IdleRec EXCEPT !.pc = "sel", !.stack = <<"rp_sel", "ret">>,
                             !.op = "read", !.pageno = p, !.write_ok = w])

\* SimpleLruPageExists(ctl, pageno)
Call_Exists(t, p) ==
    /\ t \in Threads
    /\ Enter(t, [IdleRec EXCEPT !.pc = "sel", !.stack = <<"ex_sel", "ret">>,
                             !.op = "exists", !.pageno = p])

\* SimpleLruWritePage(ctl, slotno, NULL)
Call_Write(t, s) ==
    /\ s \in Slots
    /\ Enter(t, [IdleRec EXCEPT !.pc = "wp", !.stack = <<"ret">>,
                                !.op = "write", !.wslot = s, !.arg = s])

\* SimpleLruFlush(ctl, checkpoint)
Call_Flush(t) ==
    /\ t \in Threads
    /\ Enter(t, [IdleRec EXCEPT !.pc = "fl_loop", !.op = "flush"])

\* variant: the cutoff is used as the caller passed it
TruncateCutoff_AsPassed(cutoffPage) == cutoffPage

\* the cutoff point: cutoffPage -= cutoffPage % SLRU_PAGES_PER_SEGMENT
TruncateCutoff(cutoffPage) ==
    cutoffPage - CRem(cutoffPage, SLRU_PAGES_PER_SEGMENT)

\* SimpleLruTruncate / SimpleLruTruncateWithLock
Call_Truncate(t, c, held) ==
    /\ held \in BOOLEAN
    /\ Enter(t, [IdleRec EXCEPT !.pc = "tr_scan", !.op = "truncate",
                             !.arg = c, !.cutoff = TruncateCutoff(c),
                             !.lockHeld = held])

\* ---- SlruSelectLRUPage ----
\* variant: a dirty victim is handed out without being written
VictimIsClean_AnyValid(s) == page_status[s] = SLRU_PAGE_VALID

\* "If the selected page is clean, we're set."
VictimIsClean(s) == page_status[s] = SLRU_PAGE_VALID /\ ~page_dirty[s]

Select(t) ==
    LET r == th[t]
        hits == HoldingSlots(r.pageno)
        sc == SelectScan(0, cur_lru_count, page_lru_count, 0, -1, 0)
        best == sc.slot
        \* noted for the caller's record: the scan backed off a count
        r1 == [r EXCEPT !.lru_reset = @ \/ sc.lru # page_lru_count]
    IN  /\ r.pc = "sel"
        /\ UNCHANGED <<page_buffer, group_lsn, disk, wal_flushed>>
        /\ UNCHANGED <<calls, num_slots, page_number, page_status, page_dirty,
                       latest_page_number, buffer_locks, gh, redirtied>>
        /\ IF hits # {}
           THEN /\ SetTh(t, Return([r EXCEPT !.slotno = Min(hits)]))
                /\ UNCHANGED <<cur_lru_count, page_lru_count, ControlLock>>
           ELSE /\ cur_lru_count' = cur_lru_count + 1
                /\ page_lru_count' = sc.lru
                /\ IF sc.empty \/ VictimIsClean(best)
                   THEN /\ SetTh(t, Return([r1 EXCEPT !.slotno = best]))
                        /\ UNCHANGED ControlLock
                   ELSE IF page_status[best] = SLRU_PAGE_VALID
                   THEN /\ SetTh(t, Call([r1 EXCEPT !.wslot = best], "wp", <<"sel">>))
                        /\ UNCHANGED ControlLock
                   ELSE /\ SetTh(t, Call([r1 EXCEPT !.wio = best], "wio_acq", <<"sel">>))
                        /\ ControlLock' = LWLockRelease(ControlLock, t)

\* ---- SimpleLruZeroPage after the selector ----
\* variant: the newest page is not advanced
ZeroPageLatest_Keep(latest, pageno) == latest

\* "Assume this page is now the latest active page"
ZeroPageLatest(latest, pageno) == pageno

ZP_Body(t) ==
    LET r == th[t]
        s == r.slotno
        ru == SlruRecentlyUsed(cur_lru_count, page_lru_count, s)
    IN  /\ r.pc = "zp"
        /\ page_buffer' = [page_buffer EXCEPT ![s] = ZeroImage]
        /\ group_lsn' = [group_lsn EXCEPT ![s] = SimpleLruZeroLSNs]
        /\ UNCHANGED <<disk, wal_flushed>>
        /\ page_number' = [page_number EXCEPT ![s] = r.pageno]
        /\ page_status' = [page_status EXCEPT ![s] = SLRU_PAGE_VALID]
        /\ page_dirty' = [page_dirty EXCEPT ![s] = TRUE]
        /\ cur_lru_count' = ru[1]
        /\ page_lru_count' = ru[2]
        /\ latest_page_number' = ZeroPageLatest(latest_page_number, r.pageno)
        /\ redirtied' = [redirtied EXCEPT
                           ![s] = @ \/ page_status[s] = SLRU_PAGE_WRITE_IN_PROGRESS]
        /\ SetTh(t, Return(r))
        /\ UNCHANGED <<calls, num_slots, ControlLock, buffer_locks, gh>>

\* ---- SimpleLruWaitIO ----
WIO_Acquire(t) ==
    LET r == th[t] IN
    /\ r.pc = "wio_acq"
    /\ UNCHANGED <<page_buffer, group_lsn, disk, wal_flushed>>
    /\ CanAcquire(buffer_locks[r.wio], "shared")
    /\ buffer_locks' = [buffer_locks EXCEPT ![r.wio] = LWLockAcquire(@, t, "shared")]
    /\ SetTh(t, [r EXCEPT !.pc = "wio_rel"])
    /\ Observe(t, {"slotlock"})
    /\ UNCHANGED <<calls, shmem, ControlLock, redirtied>>

\* variant: the waiter keeps the per-buffer lock when it goes for the
\* control lock
WaitIOUnlock_Keep(t, s) == UNCHANGED buffer_locks

\* the waiter lets go of the per-buffer lock at once
WaitIOUnlock(t, s) ==
    buffer_locks' = [buffer_locks EXCEPT ![s] = LWLockRelease(@, t)]

WIO_Release(t) ==
    LET r == th[t] IN
    /\ r.pc = "wio_rel"
    /\ UNCHANGED <<page_buffer, group_lsn, disk, wal_flushed>>
    /\ WaitIOUnlock(t, r.wio)
    /\ SetTh(t, [r EXCEPT !.pc = "wio_ctl"])
    /\ UNCHANGED <<calls, shmem, ControlLock, gh, redirtied>>

WIO_Reacquire(t) ==
    LET r == th[t]
        s == r.wio
        \* LWLockConditionalAcquire(buffer_locks[slotno], LW_SHARED) succeeds
        failed == InProgress(s) /\ LockNoExclusive(buffer_locks[s])
    IN  /\ r.pc = "wio_ctl"
        /\ UNCHANGED <<page_buffer, group_lsn, disk, wal_flushed>>
        /\ CanAcquire(ControlLock, "exclusive")
        /\ ControlLock' = LWLockAcquire(ControlLock, t, "exclusive")
        /\ page_status' =
             IF ~failed THEN page_status
             ELSE IF page_status[s] = SLRU_PAGE_READ_IN_PROGRESS
             THEN [page_status EXCEPT ![s] = SLRU_PAGE_EMPTY]
             ELSE [page_status EXCEPT ![s] = SLRU_PAGE_VALID]
        /\ page_dirty' =
             IF failed /\ page_status[s] = SLRU_PAGE_WRITE_IN_PROGRESS
             THEN [page_dirty EXCEPT ![s] = TRUE]
             ELSE page_dirty
        /\ SetTh(t, Return([r EXCEPT !.wio = NoSlot]))
        /\ Observe(t, IF failed THEN {"excl", "slotlock"} ELSE {"excl"})
        /\ UNCHANGED <<calls, num_slots, page_number, page_lru_count, cur_lru_count,
                       latest_page_number, buffer_locks, redirtied>>


\* ---- SimpleLruWritePage ----
\* variant: the write's end overwrites the dirty flag with its own outcome
WriteDoneDirty_Overwrite(ok, dirty) == ~ok

\* variant: the page stays dirty whatever the write's outcome
WriteDoneDirty_StayDirty(ok, dirty) == TRUE

\* the dirty flag after the write: set again if the write failed
WriteDoneDirty(ok, dirty) == IF ~ok THEN TRUE ELSE dirty

\* variant: the per-buffer lock is taken without waiting for its holder
WriteStartIO_NoWait(t, s) ==
    /\ buffer_locks' = [buffer_locks EXCEPT ![s] = LWLockAcquire(@, t, "exclusive")]
    /\ ControlLock' = LWLockRelease(ControlLock, t)

\* variant: the control lock is kept during the I/O
WriteStartIO_KeepControl(t, s) ==
    /\ CanAcquire(buffer_locks[s], "exclusive")
    /\ buffer_locks' = [buffer_locks EXCEPT ![s] = LWLockAcquire(@, t, "exclusive")]
    /\ UNCHANGED ControlLock

\* acquire the per-buffer lock, then release the control lock for the I/O
WriteStartIO(t, s) ==
    /\ CanAcquire(buffer_locks[s], "exclusive")
    /\ buffer_locks' = [buffer_locks EXCEPT ![s] = LWLockAcquire(@, t, "exclusive")]
    /\ ControlLock' = LWLockRelease(ControlLock, t)

\* the wait loop and the dirty test, with pageno already captured in r
WritePageCheck(t, r) ==
    LET s == r.wslot IN
    IF /\ page_status[s] = SLRU_PAGE_WRITE_IN_PROGRESS
       /\ page_number[s] = r.wpageno
    THEN /\ SetTh(t, Call([r EXCEPT !.wio = s], "wio_acq", <<"wp_loop">>))
         /\ ControlLock' = LWLockRelease(ControlLock, t)
         /\ UNCHANGED <<page_status, page_dirty, redirtied>>
    ELSE IF \/ ~page_dirty[s]
            \/ page_status[s] # SLRU_PAGE_VALID
            \/ page_number[s] # r.wpageno
    THEN /\ SetTh(t, Return([r EXCEPT !.wslot = NoSlot, !.wpageno = 0]))
         /\ UNCHANGED <<page_status, page_dirty, redirtied, ControlLock>>
    ELSE /\ page_status' = [page_status EXCEPT ![s] = SLRU_PAGE_WRITE_IN_PROGRESS]
         /\ page_dirty' = [page_dirty EXCEPT ![s] = FALSE]
         /\ redirtied' = [redirtied EXCEPT ![s] = FALSE]
         /\ SetTh(t, [r EXCEPT !.pc = "wp_lock"])
         /\ UNCHANGED ControlLock

WP_Entry(t) ==
    LET r == th[t] IN
    /\ r.pc = "wp"
    /\ UNCHANGED <<page_buffer, group_lsn, disk, wal_flushed>>
    /\ WritePageCheck(t, [r EXCEPT !.wpageno = page_number[r.wslot]])
    /\ UNCHANGED <<calls, num_slots, page_number, page_lru_count, cur_lru_count,
                   latest_page_number, buffer_locks, gh>>

WP_Loop(t) ==
    LET r == th[t] IN
    /\ r.pc = "wp_loop"
    /\ UNCHANGED <<page_buffer, group_lsn, disk, wal_flushed>>
    /\ WritePageCheck(t, r)
    /\ UNCHANGED <<calls, num_slots, page_number, page_lru_count, cur_lru_count,
                   latest_page_number, buffer_locks, gh>>

WP_Lock(t) ==
    LET r == th[t] IN
    /\ r.pc = "wp_lock"
    /\ UNCHANGED <<page_buffer, group_lsn, disk, wal_flushed>>
    /\ WriteStartIO(t, r.wslot)
    /\ SetTh(t, [r EXCEPT !.pc = "wp_wal"])
    /\ Observe(t, {"slotlock"})
    /\ UNCHANGED <<calls, shmem, redirtied>>

\* ---- SlruPhysicalWritePage ----
\* ctl->do_fsync, as SimpleLruInit leaves it
do_fsync == TRUE

\* the largest LSN recorded for the slot
MaxGroupLsn(lsns) == Max({lsns[g] : g \in DOMAIN lsns})

\* variant: the WAL is flushed whatever the LSN, up to nothing
XLogFlush_Skip(flushed, lsn) == flushed

\* XLogFlush(lsn): on return the WAL is flushed at least up to lsn
XLogFlush(flushed, lsn) == IF lsn > flushed THEN lsn ELSE flushed

\* variant: the WAL is never flushed before a page write
WalFlushNeeded_Never(max_lsn) == FALSE

\* !XLogRecPtrIsInvalid(max_lsn)
WalFlushNeeded(max_lsn) == max_lsn # 0

\* the write-WAL-before-data rule: flush the WAL up to the slot's largest LSN
WP_Wal(t) ==
    LET r == th[t]
        max_lsn == IF LsnGroups > 0 THEN MaxGroupLsn(group_lsn[r.wslot]) ELSE 0
    IN  /\ r.pc = "wp_wal"
        /\ wal_flushed' = IF WalFlushNeeded(max_lsn)
                          THEN XLogFlush(wal_flushed, max_lsn)
                          ELSE wal_flushed
        /\ SetTh(t, [r EXCEPT !.pc = "wp_io", !.max_lsn = max_lsn])
        /\ UNCHANGED <<calls, shmem, ControlLock, buffer_locks, gh, redirtied,
                       page_buffer, group_lsn, disk>>

SLRU_OPEN_FAILED == "OPEN_FAILED"
SLRU_WRITE_FAILED == "WRITE_FAILED"
SLRU_FSYNC_FAILED == "FSYNC_FAILED"
NoError == "none"
WriteCauses == {NoError, SLRU_OPEN_FAILED, SLRU_WRITE_FAILED, SLRU_FSYNC_FAILED}

\* the flush context already holds an open file for the segment
Registered(fdata, segno) == \E i \in DOMAIN fdata : fdata[i].segno = segno
CloseAll(fdata) == [i \in DOMAIN fdata |-> [fdata[i] EXCEPT !.open = FALSE]]

\* the segment files after the write: nothing on a failed open, the file
\* created on a failed seek or write, the page stored otherwise
WriteToDisk(d, pageno, image, cause) ==
    IF cause = SLRU_OPEN_FAILED THEN d
    ELSE IF cause = SLRU_WRITE_FAILED THEN OpenCreate(d, SegNo(pageno))
    ELSE StorePage(d, pageno, image)

\* variant: the flush context takes every new file
FlushTableFull_Never(fdata) == FALSE

\* the flush context has no room for one more file
FlushTableFull(fdata) == ~(Len(fdata) < MAX_FLUSH_BUFFERS)

\* what became of a file opened for this write alone: fsync'ed if do_fsync,
\* and closed on every path; "none" when no such file was opened
OneShot(standalone, cause) ==
    IF ~standalone \/ cause = SLRU_OPEN_FAILED THEN "none"
    ELSE IF cause = SLRU_WRITE_FAILED THEN "closed"
    ELSE IF do_fsync THEN "fsynced_closed"
    ELSE "closed"

\* open or reuse the file, seek, write the page; fsync and close unless the
\* file belongs to a flush context
WP_IO(t, cause) ==
    LET r == th[t]
        segno == SegNo(r.wpageno)
        inflush == r.op = "flush"
        reuse == inflush /\ Registered(r.fdata, segno)
        register == inflush /\ ~reuse /\ ~FlushTableFull(r.fdata)
        standalone == ~inflush \/ (~reuse /\ ~register)
        ok == cause = NoError
        fdata1 == IF register /\ cause # SLRU_OPEN_FAILED
                  THEN Append(r.fdata, [segno |-> segno, open |-> TRUE,
                                        fsync |-> "none"])
                  ELSE r.fdata
        \* a failed write in a flush closes the files of the flush context
        fdata2 == IF ~ok /\ inflush THEN CloseAll(fdata1) ELSE fdata1
    IN  /\ r.pc = "wp_io"
        /\ cause \in WriteCauses
        /\ cause = SLRU_OPEN_FAILED => ~reuse
        /\ cause = SLRU_FSYNC_FAILED => standalone /\ do_fsync
        /\ disk' = WriteToDisk(disk, r.wpageno, page_buffer[r.wslot], cause)
        /\ SetTh(t, [r EXCEPT !.pc = "wp_fin", !.ok = ok, !.fdata = fdata2,
                              !.shot = OneShot(standalone, cause)])
        /\ Observe(t, {"io"})
        /\ UNCHANGED <<calls, shmem, ControlLock, buffer_locks, redirtied,
                       page_buffer, group_lsn, wal_flushed>>

\* variant: a failed write leaves the slot EMPTY
WriteDoneStatus_EmptyOnFailure(ok) ==
    IF ok THEN SLRU_PAGE_VALID ELSE SLRU_PAGE_EMPTY

\* the status after the physical write, whatever its outcome
WriteDoneStatus(ok) == SLRU_PAGE_VALID

\* variant: the control lock is not taken again after the write
WriteEndIO_NoControl(t) == UNCHANGED ControlLock

\* "Re-acquire control lock and update page state"
WriteEndIO(t) ==
    /\ CanAcquire(ControlLock, "exclusive")
    /\ ControlLock' = LWLockAcquire(ControlLock, t, "exclusive")

WP_Fin(t) ==
    LET r == th[t]
        s == r.wslot
    IN  /\ r.pc = "wp_fin"
        /\ UNCHANGED <<page_buffer, group_lsn, disk, wal_flushed>>
        /\ WriteEndIO(t)
        /\ page_dirty' = [page_dirty EXCEPT ![s] = WriteDoneDirty(r.ok, @)]
        /\ page_status' = [page_status EXCEPT ![s] = WriteDoneStatus(r.ok)]
        /\ SetTh(t, [r EXCEPT !.pc = "wp_unlock"])
        /\ Observe(t, {"excl"})
        /\ UNCHANGED <<calls, num_slots, page_number, page_lru_count, cur_lru_count,
                       latest_page_number, buffer_locks, redirtied>>

\* release the per-buffer lock; only then report a failure
WP_Unlock(t) ==
    LET r == th[t] IN
    /\ r.pc = "wp_unlock"
    /\ UNCHANGED <<page_buffer, group_lsn, disk, wal_flushed>>
    /\ buffer_locks' = [buffer_locks EXCEPT ![r.wslot] = LWLockRelease(@, t)]
    /\ SetTh(t, IF r.ok
                THEN Return([r EXCEPT !.wslot = NoSlot, !.wpageno = 0,
                                      !.max_lsn = 0, !.shot = "none"])
                ELSE [r EXCEPT !.pc = "raise"])
    /\ redirtied' = [redirtied EXCEPT ![r.wslot] = FALSE]
    /\ UNCHANGED <<calls, shmem, ControlLock, gh>>

\* ---- SlruReportIOError: ereport(ERROR); the abort releases all LWLocks ----
Raise(t) ==
    /\ th[t].pc = "raise"
    /\ UNCHANGED <<page_buffer, group_lsn, disk, wal_flushed>>
    /\ ControlLock' = LWLockRelease(ControlLock, t)
    /\ buffer_locks' = [s \in DOMAIN buffer_locks |-> LWLockRelease(buffer_locks[s], t)]
    /\ SetTh(t, IdleRec)
    /\ gh' = [gh EXCEPT ![t] = NoObs]
    /\ UNCHANGED <<calls, shmem, redirtied>>

\* ---- SimpleLruReadPage_Internal ----
\* variant: a page being written is handed out whatever write_ok says
MustWaitRead_IgnoreWriteOk(status, write_ok) ==
    status = SLRU_PAGE_READ_IN_PROGRESS

\* a page found in memory cannot be used yet
MustWaitRead(status, write_ok) ==
    \/ status = SLRU_PAGE_READ_IN_PROGRESS
    \/ status = SLRU_PAGE_WRITE_IN_PROGRESS /\ ~write_ok

\* variant: the slot is marked VALID whatever the read returned
ReadDoneStatus_AlwaysValid(ok) == SLRU_PAGE_VALID

\* variant: a failed read leaves the slot marked as being read
ReadDoneStatus_KeepOnFailure(ok) ==
    IF ok THEN SLRU_PAGE_VALID ELSE SLRU_PAGE_READ_IN_PROGRESS

\* the status after the physical read
ReadDoneStatus(ok) == IF ok THEN SLRU_PAGE_VALID ELSE SLRU_PAGE_EMPTY

\* variant: the read is started without the per-buffer lock
ReadStartIO_NoSlotLock(t, s) ==
    /\ UNCHANGED buffer_locks
    /\ ControlLock' = LWLockRelease(ControlLock, t)

\* acquire the per-buffer lock, then release the control lock for the I/O
ReadStartIO(t, s) ==
    /\ CanAcquire(buffer_locks[s], "exclusive")
    /\ buffer_locks' = [buffer_locks EXCEPT ![s] = LWLockAcquire(@, t, "exclusive")]
    /\ ControlLock' = LWLockRelease(ControlLock, t)

\* variant: the page is read in again even when the slot holds it
ReadHit_Never(s, pageno) == FALSE

\* "Did we find the page in memory?"
ReadHit(s, pageno) ==
    page_number[s] = pageno /\ page_status[s] # SLRU_PAGE_EMPTY

\* mark the slot read-busy
MarkReadBusy(t, r) ==
    LET s == r.slotno IN
    /\ page_number' = [page_number EXCEPT ![s] = r.pageno]
    /\ page_status' = [page_status EXCEPT ![s] = SLRU_PAGE_READ_IN_PROGRESS]
    /\ page_dirty' = [page_dirty EXCEPT ![s] = FALSE]

RP_Sel(t) ==
    LET r == th[t]
        s == r.slotno
        ru == SlruRecentlyUsed(cur_lru_count, page_lru_count, s)
    IN  /\ r.pc = "rp_sel"
        /\ UNCHANGED <<page_buffer, group_lsn, disk, wal_flushed>>
        /\ UNCHANGED <<calls, num_slots, latest_page_number, buffer_locks, gh, redirtied>>
        /\ IF ReadHit(s, r.pageno)
           THEN IF MustWaitRead(page_status[s], r.write_ok)
                THEN /\ SetTh(t, Call([r EXCEPT !.wio = s, !.slotno = NoSlot],
                                      "wio_acq", <<"sel", "rp_sel">>))
                     /\ ControlLock' = LWLockRelease(ControlLock, t)
                     /\ UNCHANGED <<page_number, page_status, page_dirty,
                                    cur_lru_count, page_lru_count>>
                ELSE /\ cur_lru_count' = ru[1]
                     /\ page_lru_count' = ru[2]
                     /\ SetTh(t, Return(r))
                     /\ UNCHANGED <<page_number, page_status, page_dirty, ControlLock>>
           ELSE /\ MarkReadBusy(t, r)
                /\ SetTh(t, [r EXCEPT !.pc = "rp_lock"])
                /\ UNCHANGED <<cur_lru_count, page_lru_count, ControlLock>>

RP_Lock(t) ==
    LET r == th[t]
        ru == SlruRecentlyUsed(cur_lru_count, page_lru_count, r.slotno)
    IN  /\ r.pc = "rp_lock"
        /\ UNCHANGED <<page_buffer, group_lsn, disk, wal_flushed>>
        /\ ReadStartIO(t, r.slotno)
        /\ cur_lru_count' = ru[1]
        /\ page_lru_count' = ru[2]
        /\ SetTh(t, [r EXCEPT !.pc = "rp_io"])
        /\ Observe(t, {"slotlock"})
        /\ UNCHANGED <<calls, num_slots, page_number, page_status, page_dirty,
                       latest_page_number, redirtied>>

\* ---- SlruPhysicalReadPage ----
\* sysok: open (but for a missing file), lseek, read and close succeed.
\* A missing file reads as zeroes in recovery and fails otherwise; a page
\* past the end of its file is a short read; a hole reads as zeroes.
\* causes: the values slru_errcause can take; in_recovery: the value of
\* InRecovery the code has looked at, which it does for a missing file only.
SLRU_SEEK_FAILED == "SEEK_FAILED"
SLRU_READ_FAILED == "READ_FAILED"
SLRU_CLOSE_FAILED == "CLOSE_FAILED"

\* variant: a missing file reads as zeroes whatever InRecovery
MissingReadsAsZeroes_Always(InRecovery) == TRUE

\* errno == ENOENT && InRecovery
MissingReadsAsZeroes(InRecovery) == InRecovery

SlruPhysicalReadPage(d, pageno, sysok, InRecovery) ==
    LET segno == SegNo(pageno)
        rpageno == RPageNo(pageno)
        noted == IF InRecovery THEN "yes" ELSE "no"
    IN  IF segno \notin DOMAIN d
        THEN [ok |-> MissingReadsAsZeroes(InRecovery), image |-> ZeroImage,
              causes |-> IF MissingReadsAsZeroes(InRecovery) THEN {NoError}
                         ELSE {SLRU_OPEN_FAILED},
              in_recovery |-> noted]
        ELSE IF ~sysok
        THEN [ok |-> FALSE, image |-> ZeroImage,
              causes |-> {SLRU_OPEN_FAILED, SLRU_SEEK_FAILED, SLRU_READ_FAILED,
                          SLRU_CLOSE_FAILED},
              in_recovery |-> "unread"]
        ELSE IF rpageno >= FileLen(d[segno])
        THEN [ok |-> FALSE, image |-> ZeroImage, causes |-> {SLRU_READ_FAILED},
              in_recovery |-> "unread"]
        ELSE [ok |-> TRUE,
              image |-> IF rpageno \in DOMAIN d[segno] THEN d[segno][rpageno]
                        ELSE ZeroImage,
              causes |-> {NoError}, in_recovery |-> "unread"]

\* the physical read, then SimpleLruZeroLSNs
RP_IO(t, ok, rec) ==
    LET r == th[t]
        rd == SlruPhysicalReadPage(disk, r.pageno, ok, rec)
    IN  /\ r.pc = "rp_io"
        /\ page_buffer' = IF rd.ok THEN [page_buffer EXCEPT ![r.slotno] = rd.image]
                          ELSE page_buffer
        /\ group_lsn' = [group_lsn EXCEPT ![r.slotno] = SimpleLruZeroLSNs]
        /\ \E c \in rd.causes :
              SetTh(t, [r EXCEPT !.pc = "rp_fin", !.ok = rd.ok, !.did_read = TRUE,
                                 !.errcause = c, !.in_recovery = rd.in_recovery])
        /\ Observe(t, {"io"})
        /\ UNCHANGED <<calls, shmem, ControlLock, buffer_locks, redirtied,
                       disk, wal_flushed>>

RP_Fin(t) ==
    LET r == th[t] IN
    /\ r.pc = "rp_fin"
    /\ UNCHANGED <<page_buffer, group_lsn, disk, wal_flushed>>
    /\ CanAcquire(ControlLock, "exclusive")
    /\ ControlLock' = LWLockAcquire(ControlLock, t, "exclusive")
    /\ page_status' = [page_status EXCEPT ![r.slotno] = ReadDoneStatus(r.ok)]
    /\ SetTh(t, [r EXCEPT !.pc = "rp_unlock"])
    /\ Observe(t, {"excl"})
    /\ UNCHANGED <<calls, num_slots, page_number, page_dirty, page_lru_count,
                   cur_lru_count, latest_page_number, buffer_locks, redirtied>>

\* release the per-buffer lock; then report, or return through *valid
RP_Unlock(t) ==
    LET r == th[t]
        ru == SlruRecentlyUsed(cur_lru_count, page_lru_count, r.slotno)
    IN  /\ r.pc = "rp_unlock"
        /\ UNCHANGED <<page_buffer, group_lsn, disk, wal_flushed>>
        /\ buffer_locks' = [buffer_locks EXCEPT ![r.slotno] = LWLockRelease(@, t)]
        /\ UNCHANGED <<calls, num_slots, page_number, page_status, page_dirty,
                       latest_page_number, gh, redirtied>>
        /\ IF ~r.ok /\ ~r.valid
           THEN /\ SetTh(t, [r EXCEPT !.pc = "raise"])
                /\ UNCHANGED <<cur_lru_count, page_lru_count, ControlLock>>
           ELSE IF ~r.ok
           THEN /\ ControlLock' = LWLockRelease(ControlLock, t)
                /\ SetTh(t, Return([r EXCEPT !.slotno = NoSlot]))
                /\ UNCHANGED <<cur_lru_count, page_lru_count>>
           ELSE /\ cur_lru_count' = ru[1]
                /\ page_lru_count' = ru[2]
                /\ SetTh(t, Return(r))
                /\ UNCHANGED ControlLock


\* ---- SimpleLruReadPage_ReadOnly ----
\* variant: the scan accepts only VALID slots
ROHit_ValidOnly(s, pageno) ==
    /\ page_number[s] = pageno
    /\ page_status[s] = SLRU_PAGE_VALID

\* the test of the scan under the shared control lock
ROHit(s, pageno) ==
    /\ page_number[s] = pageno
    /\ page_status[s] # SLRU_PAGE_EMPTY
    /\ page_status[s] # SLRU_PAGE_READ_IN_PROGRESS

\* Take the control lock shared and scan.  On a hit the backend keeps the
\* shared lock and starts SlruRecentlyUsed by reading cur_lru_count; on a
\* miss it has released the shared lock and goes for the exclusive lock.
Call_RO(t, p, v) ==
    LET hits == {s \in Slots : ROHit(s, p)}
        r == [IdleRec EXCEPT !.op = "readonly", !.pageno = p, !.valid = v,
                             !.write_ok = TRUE, !.hist = th[t].hist]
        inmem == \E s \in Slots :
                    /\ page_number[s] = p
                    /\ page_status[s] \in {SLRU_PAGE_VALID, SLRU_PAGE_WRITE_IN_PROGRESS}
    IN  /\ th[t].pc = "idle"
        /\ UNCHANGED <<page_buffer, group_lsn, disk, wal_flushed>>
        /\ CanAcquire(ControlLock, "shared")
        /\ gh' = [gh EXCEPT ![t] = [NoObs EXCEPT !.inmem = inmem]]
        /\ calls < MaxCalls
        /\ calls' = calls + 1
        /\ IF hits # {}
           THEN /\ ControlLock' = LWLockAcquire(ControlLock, t, "shared")
                /\ SetTh(t, [r EXCEPT !.pc = "ro_cmp", !.slotno = Min(hits),
                                      !.new_lru = cur_lru_count])
           ELSE /\ SetTh(t, [r EXCEPT !.pc = "ro_upg"])
                /\ UNCHANGED ControlLock
        /\ UNCHANGED <<shmem, buffer_locks, redirtied>>

\* SlruRecentlyUsed under the shared lock, one word access at a time
RO_Cmp(t) ==
    LET r == th[t] IN
    /\ r.pc = "ro_cmp"
    /\ UNCHANGED <<page_buffer, group_lsn, disk, wal_flushed>>
    /\ SetTh(t, IF r.new_lru # page_lru_count[r.slotno]
                THEN [r EXCEPT !.pc = "ro_w1"]
                ELSE [r EXCEPT !.pc = "ret", !.new_lru = 0])
    /\ UNCHANGED <<calls, shmem, ControlLock, buffer_locks, gh, redirtied>>

RO_W1(t) ==
    LET r == th[t] IN
    /\ r.pc = "ro_w1"
    /\ UNCHANGED <<page_buffer, group_lsn, disk, wal_flushed>>
    /\ cur_lru_count' = r.new_lru + 1
    /\ SetTh(t, [r EXCEPT !.pc = "ro_w2"])
    /\ UNCHANGED <<calls, num_slots, page_number, page_status, page_dirty,
                   page_lru_count, latest_page_number, ControlLock,
                   buffer_locks, gh, redirtied>>

RO_W2(t) ==
    LET r == th[t] IN
    /\ r.pc = "ro_w2"
    /\ UNCHANGED <<page_buffer, group_lsn, disk, wal_flushed>>
    /\ page_lru_count' = [page_lru_count EXCEPT ![r.slotno] = r.new_lru + 1]
    /\ SetTh(t, [r EXCEPT !.pc = "ret", !.new_lru = 0])
    /\ UNCHANGED <<calls, num_slots, page_number, page_status, page_dirty,
                   cur_lru_count, latest_page_number, ControlLock,
                   buffer_locks, gh, redirtied>>

\* no luck: take the exclusive lock and do the regular read with write_ok
RO_Upgrade(t) ==
    LET r == th[t] IN
    /\ r.pc = "ro_upg"
    /\ UNCHANGED <<page_buffer, group_lsn, disk, wal_flushed>>
    /\ CanAcquire(ControlLock, "exclusive")
    /\ ControlLock' = LWLockAcquire(ControlLock, t, "exclusive")
    /\ SetTh(t, [r EXCEPT !.pc = "sel", !.stack = <<"rp_sel", "ret">>])
    /\ Observe(t, {"excl"})
    /\ UNCHANGED <<calls, shmem, buffer_locks, redirtied>>

\* ---- SimpleLruPageExists ----
\* variant: page_exists also waits for a write in progress
ExistsMustWait_AlsoWrite(status) ==
    status \in {SLRU_PAGE_READ_IN_PROGRESS, SLRU_PAGE_WRITE_IN_PROGRESS}

\* page_exists waits for a page that is still being read in
ExistsMustWait(status) == status = SLRU_PAGE_READ_IN_PROGRESS

EX_Sel(t) ==
    LET r == th[t]
        s == r.slotno
    IN  /\ r.pc = "ex_sel"
        /\ UNCHANGED <<page_buffer, group_lsn, disk, wal_flushed>>
        /\ UNCHANGED <<calls, num_slots, latest_page_number, buffer_locks, gh,
                       redirtied, cur_lru_count, page_lru_count>>
        /\ IF page_number[s] = r.pageno /\ page_status[s] # SLRU_PAGE_EMPTY
           THEN IF ExistsMustWait(page_status[s])
                THEN /\ SetTh(t, Call([r EXCEPT !.wio = s, !.slotno = NoSlot],
                                      "wio_acq", <<"sel", "ex_sel">>))
                     /\ ControlLock' = LWLockRelease(ControlLock, t)
                     /\ UNCHANGED <<page_number, page_status, page_dirty>>
                ELSE /\ SetTh(t, Return([r EXCEPT !.ok = TRUE]))
                     /\ UNCHANGED <<page_number, page_status, page_dirty, ControlLock>>
           ELSE /\ MarkReadBusy(t, r)
                /\ SetTh(t, [r EXCEPT !.pc = "ex_lock"])
                /\ UNCHANGED ControlLock

EX_Lock(t) ==
    LET r == th[t]
        ru == SlruRecentlyUsed(cur_lru_count, page_lru_count, r.slotno)
    IN  /\ r.pc = "ex_lock"
        /\ UNCHANGED <<page_buffer, group_lsn, disk, wal_flushed>>
        /\ ReadStartIO(t, r.slotno)
        /\ cur_lru_count' = ru[1]
        /\ page_lru_count' = ru[2]
        /\ SetTh(t, [r EXCEPT !.pc = "ex_io"])
        /\ Observe(t, {"slotlock"})
        /\ UNCHANGED <<calls, num_slots, page_number, page_status, page_dirty,
                       latest_page_number, redirtied>>

\* the physical read; the LSNs of the slot are left as they are
EX_IO(t, ok, rec) ==
    LET r == th[t]
        rd == SlruPhysicalReadPage(disk, r.pageno, ok, rec)
    IN  /\ r.pc = "ex_io"
        /\ page_buffer' = IF rd.ok THEN [page_buffer EXCEPT ![r.slotno] = rd.image]
                          ELSE page_buffer
        /\ \E c \in rd.causes :
              SetTh(t, [r EXCEPT !.pc = "ex_fin", !.ok = rd.ok,
                                 !.errcause = c, !.in_recovery = rd.in_recovery])
        /\ Observe(t, {"io"})
        /\ UNCHANGED <<calls, shmem, ControlLock, buffer_locks, redirtied,
                       group_lsn, disk, wal_flushed>>

EX_Fin(t) ==
    LET r == th[t] IN
    /\ r.pc = "ex_fin"
    /\ UNCHANGED <<page_buffer, group_lsn, disk, wal_flushed>>
    /\ CanAcquire(ControlLock, "exclusive")
    /\ ControlLock' = LWLockAcquire(ControlLock, t, "exclusive")
    /\ page_status' = [page_status EXCEPT ![r.slotno] = ReadDoneStatus(r.ok)]
    /\ SetTh(t, [r EXCEPT !.pc = "ex_unlock"])
    /\ Observe(t, {"excl"})
    /\ UNCHANGED <<calls, num_slots, page_number, page_dirty, page_lru_count,
                   cur_lru_count, latest_page_number, buffer_locks, redirtied>>

EX_Unlock(t) ==
    LET r == th[t] IN
    /\ r.pc = "ex_unlock"
    /\ UNCHANGED <<page_buffer, group_lsn, disk, wal_flushed>>
    /\ buffer_locks' = [buffer_locks EXCEPT ![r.slotno] = LWLockRelease(@, t)]
    /\ SetTh(t, Return(r))
    /\ UNCHANGED <<calls, shmem, ControlLock, gh, redirtied>>

\* ---- SimpleLruFlush ----
FL_Loop(t) ==
    LET r == th[t] IN
    /\ r.pc = "fl_loop"
    /\ UNCHANGED <<page_buffer, group_lsn, disk, wal_flushed>>
    /\ IF r.fslot < num_slots
       THEN /\ SetTh(t, Call([r EXCEPT !.wslot = r.fslot, !.fslot = r.fslot + 1],
                             "wp", <<"fl_loop">>))
            /\ UNCHANGED ControlLock
       ELSE /\ SetTh(t, [r EXCEPT !.pc = "fl_sync", !.fslot = 0, !.ok = TRUE,
                                  !.errpageno = 0])
            /\ ControlLock' = LWLockRelease(ControlLock, t)
    /\ UNCHANGED <<calls, shmem, buffer_locks, gh, redirtied>>

\* variant: the page number of a failed fsync is kept once it is set
FsyncErrPage_KeepFirst(failed, segno, pageno, ok) ==
    IF failed /\ ok THEN segno * SLRU_PAGES_PER_SEGMENT ELSE pageno

\* the page number to report after the fsync of one file
FsyncErrPage(failed, segno, pageno, ok) ==
    IF failed THEN segno * SLRU_PAGES_PER_SEGMENT ELSE pageno

\* fsync and close the next file of the flush context
FL_Sync(t, ok) ==
    LET r == th[t]
        i == r.fslot + 1
        failed == do_fsync /\ ~ok
    IN  /\ r.pc = "fl_sync"
        /\ UNCHANGED <<page_buffer, group_lsn, disk, wal_flushed>>
        /\ r.fslot < Len(r.fdata)
        /\ SetTh(t, [r EXCEPT
               !.fdata[i] = [@ EXCEPT !.open = FALSE,
                                      !.fsync = IF failed THEN "failed" ELSE "ok"],
               !.errpageno = FsyncErrPage(failed, r.fdata[i].segno, @, r.ok),
               !.ok = @ /\ ~failed,
               !.fslot = i])
        /\ UNCHANGED <<calls, shmem, ControlLock, buffer_locks, gh, redirtied>>

\* after the last file: report a failed fsync, or return
FL_End(t) ==
    LET r == th[t] IN
    /\ r.pc = "fl_sync"
    /\ UNCHANGED <<page_buffer, group_lsn, disk, wal_flushed>>
    /\ r.fslot >= Len(r.fdata)
    /\ SetTh(t, IF r.ok THEN [r EXCEPT !.pc = "ret", !.fslot = 0]
                ELSE [r EXCEPT !.pc = "raise"])
    /\ UNCHANGED <<calls, shmem, ControlLock, buffer_locks, gh, redirtied>>

\* ---- SimpleLruTruncate_internal ----
\* the scan of the slots: what stops it, and the statuses it leaves
RECURSIVE TruncateScan(_, _, _)
TruncateScan(slotno, cutoffPage, status) ==
    IF slotno = num_slots
    THEN [kind |-> "done", slot |-> NoSlot, status |-> status]
    ELSE IF status[slotno] = SLRU_PAGE_EMPTY
    THEN TruncateScan(slotno + 1, cutoffPage, status)
    ELSE IF ~PagePrecedes(page_number[slotno], cutoffPage)
    THEN TruncateScan(slotno + 1, cutoffPage, status)
    ELSE IF status[slotno] = SLRU_PAGE_VALID /\ ~page_dirty[slotno]
    THEN TruncateScan(slotno + 1, cutoffPage,
                      [status EXCEPT ![slotno] = SLRU_PAGE_EMPTY])
    ELSE IF status[slotno] = SLRU_PAGE_VALID
    THEN [kind |-> "write", slot |-> slotno, status |-> status]
    ELSE [kind |-> "wait", slot |-> slotno, status |-> status]

TR_Scan(t) ==
    LET r == th[t]
        sc == TruncateScan(0, r.cutoff, page_status)
    IN  /\ r.pc = "tr_scan"
        /\ UNCHANGED <<page_buffer, group_lsn, disk, wal_flushed>>
        /\ UNCHANGED <<calls, num_slots, page_number, page_dirty, page_lru_count,
                       cur_lru_count, latest_page_number, buffer_locks,
                       redirtied>>
        /\ IF PagePrecedes(latest_page_number, r.cutoff)
           THEN \* apparent wraparound: log and return
                /\ UNCHANGED <<page_status, gh>>
                /\ SetTh(t, [r EXCEPT !.pc = "ret", !.refused = TRUE])
                /\ ControlLock' = IF r.lockHeld THEN ControlLock
                                  ELSE LWLockRelease(ControlLock, t)
           ELSE /\ page_status' = sc.status
                /\ UNCHANGED gh
                /\ IF sc.kind = "write"
                   THEN /\ SetTh(t, Call([r EXCEPT !.wslot = sc.slot], "wp", <<"tr_scan">>))
                        /\ UNCHANGED ControlLock
                   ELSE IF sc.kind = "wait"
                   THEN /\ SetTh(t, Call([r EXCEPT !.wio = sc.slot], "wio_acq", <<"tr_scan">>))
                        /\ ControlLock' = LWLockRelease(ControlLock, t)
                   ELSE /\ SetTh(t, [r EXCEPT !.pc = "tr_dir"])
                        /\ ControlLock' = IF r.lockHeld THEN ControlLock
                                          ELSE LWLockRelease(ControlLock, t)

\* ---- SlruScanDirectory(ctl, cutoffPage, true) ----
\* variant: no segment file is taken for removal
Removable_None(d, cutoffPage) == {}

\* the segment files that precede the cutoff point
Removable(d, cutoffPage) ==
    {segno \in DOMAIN d :
        PagePrecedes(segno * SLRU_PAGES_PER_SEGMENT, TruncateCutoff(cutoffPage))}

\* unlink them; failed: the files whose removal failed, which is not reported
TR_Dir(t, failed) ==
    LET r == th[t] IN
    /\ r.pc = "tr_dir"
    /\ failed \subseteq Removable(disk, r.cutoff)
    /\ disk' = DropFiles(disk, Removable(disk, r.cutoff) \ failed)
    /\ SetTh(t, [r EXCEPT !.pc = "ret", !.dropfail = failed # {}])
    /\ UNCHANGED <<calls, shmem, ControlLock, buffer_locks, redirtied, gh,
                   page_buffer, group_lsn, wal_flushed>>

\* SlruScanDirectory(ctl, cutoffPage, true) called by the client itself: no
\* lock is taken, and the cutoff point is computed from the page passed
Call_ScanDirectory(t, c) ==
    /\ th[t].pc = "idle"
    /\ calls < MaxCalls
    /\ calls' = calls + 1
    /\ SetTh(t, [IdleRec EXCEPT !.pc = "tr_dir", !.op = "scandir",
                              !.arg = c, !.cutoff = c,
                              !.hist = th[t].hist])
    /\ gh' = [gh EXCEPT ![t] = NoObs]
    /\ UNCHANGED <<shmem, ControlLock, buffer_locks, redirtied,
                   page_buffer, group_lsn, disk, wal_flushed>>

\* ---- the caller, after an operation returned with the control lock ----
\* a status update: the caller changes the page in the slot it was given,
\* sets page_dirty and, for an asynchronous commit, records the commit
\* record's LSN in a group of the slot (lsn = 0: no LSN to record).  A caller
\* with an LSN to record has not asked for a page that may be being written.
ClientDirty(t, g, lsn) ==
    LET r == th[t]
        s == r.slotno
    IN  /\ r.pc = "ret"
        /\ UNCHANGED <<disk, wal_flushed>>
        /\ r.op \in {"read", "zero"}
        /\ s # NoSlot
        /\ ControlLock[t] = "exclusive"
        /\ lsn # 0 => ~r.write_ok /\ lsn > group_lsn[s][g]
        /\ lsn = 0 => g = 1 /\ (~page_dirty[s] \/ page_buffer[s] # DataImage)
        /\ page_buffer' = [page_buffer EXCEPT ![s] = DataImage]
        /\ group_lsn' = IF lsn = 0 THEN group_lsn
                        ELSE [group_lsn EXCEPT ![s][g] = lsn]
        /\ page_dirty' = [page_dirty EXCEPT ![s] = TRUE]
        /\ redirtied' = [redirtied EXCEPT
                           ![s] = @ \/ page_status[s] = SLRU_PAGE_WRITE_IN_PROGRESS]
        /\ SetTh(t, [r EXCEPT !.dirtied = TRUE])
        /\ UNCHANGED <<calls, num_slots, page_number, page_status, page_lru_count,
                       cur_lru_count, latest_page_number, ControlLock,
                       buffer_locks, gh>>

\* the caller releases the control lock, if the operation left it held
ClientRelease(t) ==
    /\ th[t].pc = "ret"
    /\ UNCHANGED <<page_buffer, group_lsn, disk, wal_flushed>>
    /\ ControlLock' = LWLockRelease(ControlLock, t)
    /\ SetTh(t, IdleRec)
    /\ gh' = [gh EXCEPT ![t] = NoObs]
    /\ UNCHANGED <<calls, shmem, buffer_locks, redirtied>>

Next ==
    \/ \E t \in Threads, p \in Pages : Call_Zero(t, p)
    \/ \E t \in Threads, p \in Pages, w \in BOOLEAN : Call_Read(t, p, w)
    \/ \E t \in Threads, p \in Pages : Call_Exists(t, p)
    \/ \E t \in Threads, s \in 0..(NumSlots - 1) : Call_Write(t, s)
    \/ \E t \in Threads : Call_Flush(t)
    \/ \E t \in Threads, c \in Cutoffs, h \in BOOLEAN : Call_Truncate(t, c, h)
    \/ \E t \in Threads, p \in Pages, v \in BOOLEAN : Call_RO(t, p, v)
    \/ \E t \in Threads : Select(t)
    \/ \E t \in Threads : ZP_Body(t)
    \/ \E t \in Threads : WIO_Acquire(t)
    \/ \E t \in Threads : WIO_Release(t)
    \/ \E t \in Threads : WIO_Reacquire(t)
    \/ \E t \in Threads : WP_Entry(t)
    \/ \E t \in Threads : WP_Loop(t)
    \/ \E t \in Threads : WP_Lock(t)
    \/ \E t \in Threads : WP_Wal(t)
    \/ \E t \in Threads, cause \in WriteCauses : WP_IO(t, cause)
    \/ \E t \in Threads : WP_Fin(t)
    \/ \E t \in Threads : WP_Unlock(t)
    \/ \E t \in Threads : Raise(t)
    \/ \E t \in Threads : RP_Sel(t)
    \/ \E t \in Threads : RP_Lock(t)
    \/ \E t \in Threads, ok \in BOOLEAN, rec \in BOOLEAN : RP_IO(t, ok, rec)
    \/ \E t \in Threads : RP_Fin(t)
    \/ \E t \in Threads : RP_Unlock(t)
    \/ \E t \in Threads : RO_Cmp(t)
    \/ \E t \in Threads : RO_W1(t)
    \/ \E t \in Threads : RO_W2(t)
    \/ \E t \in Threads : RO_Upgrade(t)
    \/ \E t \in Threads : EX_Sel(t)
    \/ \E t \in Threads : EX_Lock(t)
    \/ \E t \in Threads, ok \in BOOLEAN, rec \in BOOLEAN : EX_IO(t, ok, rec)
    \/ \E t \in Threads : EX_Fin(t)
    \/ \E t \in Threads : EX_Unlock(t)
    \/ \E t \in Threads : FL_Loop(t)
    \/ \E t \in Threads, ok \in BOOLEAN : FL_Sync(t, ok)
    \/ \E t \in Threads : FL_End(t)
    \/ \E t \in Threads : TR_Scan(t)
    \/ \E t \in Threads, failed \in SUBSET DOMAIN disk : TR_Dir(t, failed)
    \/ \E t \in Threads, g \in 1..LsnGroups, lsn \in 0..MaxLsn : ClientDirty(t, g, lsn)
    \/ \E t \in Threads : ClientRelease(t)

Spec == Init /\ [][Next]_vars

\* ---- one backend alone, keeping a record of the calls that returned ----
SeqPages == {0, 1} \cup {i * SLRU_PAGES_PER_SEGMENT : i \in 1..SeqPageIdx}
LruPages == {i * SLRU_PAGES_PER_SEGMENT : i \in 0..LruPageIdx}
WrapCutoff == 0 - 2147483632       \* 0x80000010 as an int
TruncPages == {0, 16, 32, 64}
TruncCutoffs == {0, 32, 48, 64, WrapCutoff}

\* the state SimpleLruInit leaves, for a pool of nslots slots and a caller
\* that will make ncalls calls
InitAlone(nslots, ncalls) ==
    /\ num_slots = nslots
    /\ page_number = [s \in Slots |-> 0]
    /\ page_status = [s \in Slots |-> SLRU_PAGE_EMPTY]
    /\ page_dirty = [s \in Slots |-> FALSE]
    /\ page_lru_count = [s \in Slots |-> 0]
    /\ cur_lru_count = 0
    /\ latest_page_number = 0
    /\ ControlLock = NoHolder
    /\ buffer_locks = [s \in Slots |-> NoHolder]
    /\ page_buffer = [s \in Slots |-> ZeroImage]
    /\ group_lsn = [s \in Slots |-> SimpleLruZeroLSNs]
    /\ disk = NoFiles
    /\ wal_flushed = 0
    /\ th = [t \in Threads |-> IdleRec]
    /\ gh = [t \in Threads |-> NoObs]
    /\ redirtied = [s \in Slots |-> FALSE]
    /\ calls = MaxCalls - ncalls

\* what the caller notes of a call that returned: the call and its result
HistEntry(r) ==
    [op |-> r.op, pageno |-> r.pageno, arg |-> r.arg, slotno |-> r.slotno,
     refused |-> r.refused, dropfail |-> r.dropfail,
     dirtied |-> r.dirtied, latest |-> latest_page_number]

LastOf(h, keep) == IF Len(h) > keep THEN SubSeq(h, Len(h) - keep + 1, Len(h)) ELSE h

\* pages created by zero_page that the caller has not changed and that are
\* still in memory, not yet written by write_page
ZeroedAfter(h, r) ==
    LET kept == {p \in h.zeroed : HoldingSlots(p) # {}}
    IN  IF r.op = "zero"
        THEN IF r.dirtied THEN kept \ {r.pageno} ELSE kept \cup {r.pageno}
        ELSE IF r.op = "read" /\ r.dirtied THEN kept \ {r.pageno}
        ELSE IF r.op = "write"
        THEN {p \in kept : page_number[r.arg] # p}
        ELSE kept

\* pages created by zero_page, left unchanged and written by a write_page
\* that returned
StoredAfter(h, r) ==
    IF r.op \in {"truncate", "scandir"} THEN {}
    ELSE IF r.op = "zero" \/ (r.op = "read" /\ r.dirtied)
    THEN h.stored \ {r.pageno}
    ELSE IF r.op = "write"
    THEN h.stored \cup {p \in h.zeroed :
                         /\ page_number[r.arg] = p
                         /\ page_status[r.arg] = SLRU_PAGE_VALID
                         /\ ~page_dirty[r.arg]}
    ELSE h.stored

\* the caller releases the control lock and notes the call
ClientReturn(t, keep) ==
    LET r == th[t]
        h == r.hist
    IN  /\ r.pc = "ret"
        /\ ControlLock' = LWLockRelease(ControlLock, t)
        /\ SetTh(t, [IdleRec EXCEPT !.hist =
                        [log |-> LastOf(Append(h.log, HistEntry(r)), keep),
                         zeroed |-> ZeroedAfter(h, r),
                         stored |-> StoredAfter(h, r)]])
        /\ gh' = [gh EXCEPT ![t] = NoObs]
        /\ UNCHANGED <<calls, shmem, buffer_locks, redirtied,
                       page_buffer, group_lsn, disk, wal_flushed>>

\* zero_page, read_page and write_page on a small pool, the caller changing pages
InitSeq == InitAlone(SeqSlots, SeqCalls)

NextSeq ==
    \/ \E p \in SeqPages : Call_Zero(1, p)
    \/ \E p \in SeqPages : Call_Read(1, p, FALSE)
    \/ \E s \in 0..(SeqSlots - 1) : Call_Write(1, s)
    \/ Select(1)
    \/ ZP_Body(1)
    \/ WP_Entry(1)
    \/ WP_Lock(1)
    \/ WP_Wal(1)
    \/ \E cause \in WriteCauses : WP_IO(1, cause)
    \/ WP_Fin(1)
    \/ WP_Unlock(1)
    \/ Raise(1)
    \/ RP_Sel(1)
    \/ RP_Lock(1)
    \/ \E ok \in BOOLEAN, rec \in BOOLEAN : RP_IO(1, ok, rec)
    \/ RP_Fin(1)
    \/ RP_Unlock(1)
    \/ ClientDirty(1, 1, 0)
    \/ ClientReturn(1, SeqHist)

SpecSeq == InitSeq /\ [][NextSeq]_vars

\* a full pool of clean pages, each on disk, as concurrent use can leave it:
\* SlruRecentlyUsed running under the shared lock can leave slots with equal
\* LRU counts, and counts beyond cur_lru_count
FullPool ==
    /\ num_slots = LruSlots
    /\ \/ page_number = [s \in Slots |-> s * SLRU_PAGES_PER_SEGMENT]
       \/ page_number = [s \in Slots |-> (num_slots - 1 - s) * SLRU_PAGES_PER_SEGMENT]
    /\ page_status = [s \in Slots |-> SLRU_PAGE_VALID]
    /\ page_dirty = [s \in Slots |-> FALSE]
    /\ page_lru_count \in [Slots -> 0..MaxLru]
    /\ cur_lru_count \in 0..MaxLru
    /\ latest_page_number \in LruPages
    /\ ControlLock = NoHolder
    /\ buffer_locks = [s \in Slots |-> NoHolder]
    /\ page_buffer = [s \in Slots |-> ZeroImage]
    /\ group_lsn = [s \in Slots |-> SimpleLruZeroLSNs]
    /\ disk = [segno \in Slots |-> [y \in {0} |-> ZeroImage]]
    /\ wal_flushed = 0
    /\ th = [t \in Threads |-> IdleRec]
    /\ gh = [t \in Threads |-> NoObs]
    /\ redirtied = [s \in Slots |-> FALSE]
    /\ calls = MaxCalls - 1

\* zero_page on a pool of four slots, empty or full
InitLru == InitAlone(LruSlots, LruCalls) \/ FullPool

NextLru ==
    \/ \E p \in LruPages : Call_Zero(1, p)
    \/ Select(1)
    \/ ZP_Body(1)
    \/ WP_Entry(1)
    \/ WP_Lock(1)
    \/ WP_Wal(1)
    \/ \E cause \in WriteCauses : WP_IO(1, cause)
    \/ WP_Fin(1)
    \/ WP_Unlock(1)
    \/ Raise(1)
    \/ ClientReturn(1, LruCalls)

SpecLru == InitLru /\ [][NextLru]_vars

\* zero_page, write_page, flush and truncate, with cutoffs inside a segment
\* and beyond the wraparound point
InitTrunc == InitAlone(SeqSlots, TruncCalls)

NextTrunc ==
    \/ \E p \in TruncPages : Call_Zero(1, p)
    \/ \E s \in 0..(SeqSlots - 1) : Call_Write(1, s)
    \/ Call_Flush(1)
    \/ \E c \in TruncCutoffs : Call_Truncate(1, c, FALSE)
    \/ \E c \in TruncCutoffs : Call_ScanDirectory(1, c)
    \/ Select(1)
    \/ ZP_Body(1)
    \/ WP_Entry(1)
    \/ WP_Lock(1)
    \/ WP_Wal(1)
    \/ \E cause \in WriteCauses : WP_IO(1, cause)
    \/ WP_Fin(1)
    \/ WP_Unlock(1)
    \/ Raise(1)
    \/ FL_Loop(1)
    \/ \E ok \in BOOLEAN : FL_Sync(1, ok)
    \/ FL_End(1)
    \/ TR_Scan(1)
    \/ \E failed \in SUBSET DOMAIN disk : TR_Dir(1, failed)
    \/ ClientReturn(1, TruncCalls)

SpecTrunc == InitTrunc /\ [][NextTrunc]_vars

\* a pool with more slots than MAX_FLUSH_BUFFERS after one zero_page per
\* slot: every slot VALID and dirty, the pages one or two to a segment, no
\* segment file yet
DirtyPool ==
    /\ num_slots = FlushSlots
    /\ \/ page_number = [s \in Slots |-> s * SLRU_PAGES_PER_SEGMENT]
       \/ page_number = [s \in Slots |-> s * (SLRU_PAGES_PER_SEGMENT \div 2)]
    /\ page_status = [s \in Slots |-> SLRU_PAGE_VALID]
    /\ page_dirty = [s \in Slots |-> TRUE]
    /\ page_lru_count = [s \in Slots |-> 2 * (s + 1)]
    /\ cur_lru_count = 2 * num_slots
    /\ latest_page_number = page_number[num_slots - 1]
    /\ ControlLock = NoHolder
    /\ buffer_locks = [s \in Slots |-> NoHolder]
    /\ page_buffer = [s \in Slots |-> ZeroImage]
    /\ group_lsn = [s \in Slots |-> SimpleLruZeroLSNs]
    /\ disk = NoFiles
    /\ wal_flushed = 0
    /\ th = [t \in Threads |-> IdleRec]
    /\ gh = [t \in Threads |-> NoObs]
    /\ redirtied = [s \in Slots |-> FALSE]
    /\ calls = MaxCalls - FlushCalls

\* flush of a pool whose dirty pages lie in more segments than the flush
\* context can hold
InitFlush == DirtyPool

NextFlush ==
    \/ Call_Flush(1)
    \/ WP_Entry(1)
    \/ WP_Lock(1)
    \/ WP_Wal(1)
    \/ \E cause \in WriteCauses : WP_IO(1, cause)
    \/ WP_Fin(1)
    \/ WP_Unlock(1)
    \/ Raise(1)
    \/ FL_Loop(1)
    \/ \E ok \in BOOLEAN : FL_Sync(1, ok)
    \/ FL_End(1)
    \/ ClientReturn(1, FlushCalls)

SpecFlush == InitFlush /\ [][NextFlush]_vars

\* a pool of two slots after zero_page(0), zero_page(32) and a flush: both
\* pages VALID, clean and on disk
TouchPages == {0, 32, 64}
CleanPool ==
    /\ num_slots = 2
    /\ page_number = [s \in Slots |-> s * SLRU_PAGES_PER_SEGMENT]
    /\ page_status = [s \in Slots |-> SLRU_PAGE_VALID]
    /\ page_dirty = [s \in Slots |-> FALSE]
    /\ page_lru_count = [s \in Slots |-> 2 * (s + 1)]
    /\ cur_lru_count = 2 * num_slots
    /\ latest_page_number = page_number[num_slots - 1]
    /\ ControlLock = NoHolder
    /\ buffer_locks = [s \in Slots |-> NoHolder]
    /\ page_buffer = [s \in Slots |-> ZeroImage]
    /\ group_lsn = [s \in Slots |-> SimpleLruZeroLSNs]
    /\ disk = [segno \in Slots |-> [y \in {0} |-> ZeroImage]]
    /\ wal_flushed = 0
    /\ th = [t \in Threads |-> IdleRec]
    /\ gh = [t \in Threads |-> NoObs]
    /\ redirtied = [s \in Slots |-> FALSE]
    /\ calls = MaxCalls - TouchCalls

\* backends reading pages through SimpleLruReadPage_ReadOnly at once
InitTouch == CleanPool

NextTouch ==
    \/ \E t \in Threads, p \in TouchPages : Call_RO(t, p, FALSE)
    \/ \E t \in Threads : RO_Cmp(t)
    \/ \E t \in Threads : RO_W1(t)
    \/ \E t \in Threads : RO_W2(t)
    \/ \E t \in Threads : RO_Upgrade(t)
    \/ \E t \in Threads : Select(t)
    \/ \E t \in Threads : WIO_Acquire(t)
    \/ \E t \in Threads : WIO_Release(t)
    \/ \E t \in Threads : WIO_Reacquire(t)
    \/ \E t \in Threads : RP_Sel(t)
    \/ \E t \in Threads : RP_Lock(t)
    \/ \E t \in Threads, ok \in BOOLEAN, rec \in BOOLEAN : RP_IO(t, ok, rec)
    \/ \E t \in Threads : RP_Fin(t)
    \/ \E t \in Threads : RP_Unlock(t)
    \/ \E t \in Threads : Raise(t)
    \/ \E t \in Threads : ClientRelease(t)

SpecTouch == InitTouch /\ [][NextTouch]_vars

\* backends calling zero_page, read_page, write_page, flush and truncate at
\* once, under fair scheduling: a backend inside an operation goes on whenever
\* it can (every physical I/O and XLogFlush returns, a lock that stays free
\* is acquired), and a caller that has its result releases the control lock
InitLive == InitAlone(NumSlots, LiveCalls)

Continue(t) ==
    \/ Select(t)
    \/ ZP_Body(t)
    \/ WIO_Acquire(t)
    \/ WIO_Release(t)
    \/ WIO_Reacquire(t)
    \/ WP_Entry(t)
    \/ WP_Loop(t)
    \/ WP_Lock(t)
    \/ WP_Wal(t)
    \/ \E cause \in WriteCauses : WP_IO(t, cause)
    \/ WP_Fin(t)
    \/ WP_Unlock(t)
    \/ Raise(t)
    \/ RP_Sel(t)
    \/ RP_Lock(t)
    \/ \E ok \in BOOLEAN, rec \in BOOLEAN : RP_IO(t, ok, rec)
    \/ RP_Fin(t)
    \/ RP_Unlock(t)
    \/ FL_Loop(t)
    \/ \E ok \in BOOLEAN : FL_Sync(t, ok)
    \/ FL_End(t)
    \/ TR_Scan(t)
    \/ \E failed \in SUBSET DOMAIN disk : TR_Dir(t, failed)
    \/ ClientRelease(t)

NextLive ==
    \/ \E t \in Threads, p \in Pages : Call_Zero(t, p)
    \/ \E t \in Threads, p \in Pages : Call_Read(t, p, FALSE)
    \/ \E t \in Threads, s \in 0..(NumSlots - 1) : Call_Write(t, s)
    \/ \E t \in Threads : Call_Flush(t)
    \/ \E t \in Threads, c \in Cutoffs : Call_Truncate(t, c, FALSE)
    \/ \E t \in Threads : Continue(t)

SpecLive ==
    /\ InitLive
    /\ [][NextLive]_vars
    /\ \A t \in Threads : WF_vars(Continue(t))


\* ======================= properties =======================

\* where a backend is inside SlruPhysicalReadPage / SlruPhysicalWritePage
InReadIO(t) == th[t].pc \in {"rp_io", "ex_io"}
InWriteIO(t) == th[t].pc \in {"wp_wal", "wp_io"}
InIO(t) == InReadIO(t) \/ InWriteIO(t)
\* from the start of the I/O until the per-buffer lock is released
IOBusy(t) ==
    th[t].pc \in {"rp_io", "rp_fin", "rp_unlock", "ex_io", "ex_fin", "ex_unlock",
                  "wp_wal", "wp_io", "wp_fin", "wp_unlock"}
\* the slot a backend does, or is about to do, I/O on
IOSlot(t) ==
    IF th[t].pc \in {"wp_lock", "wp_wal", "wp_io", "wp_fin", "wp_unlock"}
    THEN th[t].wslot ELSE th[t].slotno
HoldsControl(t) == ControlLock[t] # "none"
NoExclusiveControl == \A t \in Threads : ControlLock[t] # "exclusive"
ExclusiveHolders(s) == {t \in Threads : buffer_locks[s][t] = "exclusive"}

\* C1: in every reachable state at most one non-EMPTY slot holds any given
\* page number.
C1_UniquePage ==
    \A s1 \in Slots, s2 \in Slots :
        /\ s1 # s2
        /\ page_status[s1] # SLRU_PAGE_EMPTY
        /\ page_status[s2] # SLRU_PAGE_EMPTY
        => page_number[s1] # page_number[s2]

\* two backends went for the same page at once: one reads it in, the other
\* waits for that read, and a second slot holds another page
C1_Witness ==
    \E t1 \in Threads, t2 \in Threads, s \in Slots :
        /\ InReadIO(t1)
        /\ th[t2].pc \in {"wio_acq", "wio_rel", "wio_ctl"}
        /\ th[t2].pageno = th[t1].pageno
        /\ s # th[t1].slotno
        /\ page_status[s] # SLRU_PAGE_EMPTY

\* C2: no two backends are inside a physical read or write of the same slot;
\* a second I/O on a slot starts only after the previous I/O backend has made
\* its final status change and released the per-buffer lock.
C2_OneIOPerSlot ==
    \A t1 \in Threads, t2 \in Threads :
        t1 # t2 /\ IOBusy(t1) /\ InIO(t2) => IOSlot(t1) # IOSlot(t2)

\* a backend is kept from starting I/O on a slot whose I/O is still running
C2_Witness ==
    \E t1 \in Threads, t2 \in Threads :
        /\ t1 # t2
        /\ InIO(t1)
        /\ th[t2].pc \in {"wp_lock", "rp_lock", "ex_lock"}
        /\ IOSlot(t1) = IOSlot(t2)

\* C3: whenever no backend holds the control lock exclusively, every slot in
\* READ_IN_PROGRESS or WRITE_IN_PROGRESS has its per-buffer lock held
\* exclusively by exactly one backend.
C3_InProgressLocked ==
    NoExclusiveControl =>
        \A s \in Slots : InProgress(s) => Cardinality(ExclusiveHolders(s)) = 1

\* the control lock is free while a read and a write are both in flight
C3_Witness ==
    /\ \A t \in Threads : ControlLock[t] = "none"
    /\ \E s \in Slots : page_status[s] = SLRU_PAGE_READ_IN_PROGRESS
    /\ \E s \in Slots : page_status[s] = SLRU_PAGE_WRITE_IN_PROGRESS

\* C4: every physical read or write is done by a backend that does not hold
\* the control lock and holds the slot's per-buffer lock exclusively.
C4_IOUnderSlotLockOnly ==
    \A t \in Threads :
        InIO(t) => /\ ControlLock[t] = "none"
                   /\ buffer_locks[IOSlot(t)][t] = "exclusive"

\* a physical write issued inside a flush while another backend reads
C4_Witness ==
    \E t1 \in Threads, t2 \in Threads :
        /\ InWriteIO(t1) /\ th[t1].op = "flush"
        /\ InReadIO(t2)

\* the selector has just returned to its caller
SelectReturned(t) == th[t].pc \in {"zp", "rp_sel", "ex_sel"}
SelectMissed(t) ==
    ~(/\ page_number[th[t].slotno] = th[t].pageno
      /\ page_status[th[t].slotno] # SLRU_PAGE_EMPTY)

\* C5: for any slot count N >= 1 the selector, called for a page that is not
\* in memory, never returns as victim the non-EMPTY slot holding
\* latest_page_number.
C5_LatestNeverVictim ==
    \A t \in Threads :
        SelectReturned(t) /\ SelectMissed(t) =>
            ~(/\ page_status[th[t].slotno] # SLRU_PAGE_EMPTY
              /\ page_number[th[t].slotno] = latest_page_number)

\* C6: after a failed physical read the slot is EMPTY, after a failed
\* physical write it is VALID and dirty; that state is in place, under the
\* exclusive control lock, while the per-buffer lock is still held, and the
\* error reaches the caller only after the per-buffer lock was released.
C6_FailureRestoresState ==
    \A t \in Threads :
        LET r == th[t] IN
        /\ r.pc \in {"rp_unlock", "ex_unlock"} /\ ~r.ok =>
              /\ page_status[r.slotno] = SLRU_PAGE_EMPTY
              /\ ControlLock[t] = "exclusive"
              /\ buffer_locks[r.slotno][t] = "exclusive"
        /\ r.pc = "wp_unlock" /\ ~r.ok =>
              /\ page_status[r.wslot] = SLRU_PAGE_VALID
              /\ page_dirty[r.wslot]
              /\ ControlLock[t] = "exclusive"
              /\ buffer_locks[r.wslot][t] = "exclusive"
        /\ r.pc = "raise" /\ r.wslot # NoSlot =>
              /\ page_status[r.wslot] = SLRU_PAGE_VALID
              /\ page_dirty[r.wslot]
        /\ r.pc = "raise" /\ r.wslot = NoSlot /\ r.slotno # NoSlot =>
              page_status[r.slotno] = SLRU_PAGE_EMPTY
        /\ r.pc \in {"raise", "ret", "idle"} =>
              \A s \in Slots : buffer_locks[s][t] = "none"

\* one backend reports a failed write while another is about to release the
\* per-buffer lock after a failed read
C6_Witness ==
    \E t1 \in Threads, t2 \in Threads :
        /\ th[t1].pc = "raise" /\ th[t1].wslot # NoSlot
        /\ th[t2].pc \in {"rp_fin", "ex_fin"} /\ ~th[t2].ok

\* C7: a slot dirtied by another backend while its write was in flight is
\* VALID and dirty once that write has completed successfully.
C7_RedirtyKept ==
    \A t \in Threads :
        LET r == th[t] IN
        r.pc = "wp_unlock" /\ r.ok /\ redirtied[r.wslot] =>
            /\ page_status[r.wslot] = SLRU_PAGE_VALID
            /\ page_dirty[r.wslot]

C7_Witness ==
    \E t \in Threads :
        /\ th[t].pc = "wp_unlock"
        /\ th[t].ok
        /\ redirtied[th[t].wslot]

\* C8: on every return of read_page_readonly the calling backend holds the
\* control lock, shared or exclusive.
C8_ReadOnlyReturnsWithControl ==
    \A t \in Threads :
        th[t].pc = "ret" /\ th[t].op = "readonly" => HoldsControl(t)

\* C9: when the requested page is in a slot that is VALID or
\* WRITE_IN_PROGRESS, read_page_readonly returns that slot having taken only
\* the shared control lock: no exclusive control lock, no per-buffer lock and
\* no physical I/O.
C9_ReadOnlyFastPath ==
    \A t \in Threads :
        LET r == th[t] IN
        r.op = "readonly" /\ gh[t].inmem =>
            /\ r.pc \in {"ro_cmp", "ro_w1", "ro_w2", "ret"}
            /\ ControlLock[t] = "shared"
            /\ ~gh[t].excl /\ ~gh[t].slotlock /\ ~gh[t].io
            /\ page_number[r.slotno] = r.pageno
            /\ page_status[r.slotno] \in
                   {SLRU_PAGE_VALID, SLRU_PAGE_WRITE_IN_PROGRESS}

\* the fast path returned a slot whose write is in flight
C9_Witness ==
    \E t \in Threads :
        /\ th[t].op = "readonly" /\ gh[t].inmem /\ th[t].pc = "ret"
        /\ page_status[th[t].slotno] = SLRU_PAGE_WRITE_IN_PROGRESS

\* C10: the slot read_page(pageno, write_ok) returns holds pageno and is
\* VALID, or WRITE_IN_PROGRESS only if write_ok; never EMPTY or
\* READ_IN_PROGRESS.
C10_ReadReturnsUsableSlot ==
    \A t \in Threads :
        LET r == th[t] IN
        r.pc = "ret" /\ r.op = "read" =>
            /\ r.slotno \in Slots
            /\ page_number[r.slotno] = r.pageno
            /\ \/ page_status[r.slotno] = SLRU_PAGE_VALID
               \/ /\ page_status[r.slotno] = SLRU_PAGE_WRITE_IN_PROGRESS
                  /\ r.write_ok

\* read_page with write_ok returned a slot whose write is in flight
C10_Witness ==
    \E t \in Threads :
        /\ th[t].pc = "ret" /\ th[t].op = "read" /\ th[t].write_ok
        /\ page_status[th[t].slotno] = SLRU_PAGE_WRITE_IN_PROGRESS

\* ---- zero_page ----
ReadLabels == {"rp_sel", "rp_lock", "rp_io", "rp_fin", "rp_unlock"}

\* backend t returns from SimpleLruZeroPage in this step
ZeroReturns(t) == th[t].op = "zero" /\ th[t].pc = "zp" /\ th'[t].pc = "ret"

\* the slot as zero_page hands it back
ZeroPost(t) ==
    LET s == th'[t].slotno
        pageno == th'[t].pageno
    IN  /\ s \in Slots
        /\ page_number'[s] = pageno
        /\ page_status'[s] = SLRU_PAGE_VALID
        /\ page_dirty'[s]
        /\ page_buffer'[s] = ZeroImage
        /\ group_lsn'[s] = SimpleLruZeroLSNs
        /\ latest_page_number' = pageno
        /\ ~th'[t].did_read

TruncateReturned(t) == th[t].op = "truncate" /\ th[t].pc = "ret"

\* nothing in memory or on disk precedes the page c
NothingBefore(c) ==
    /\ \A s \in Slots :
          page_status[s] # SLRU_PAGE_EMPTY => ~PagePrecedes(page_number[s], c)
    /\ \A segno \in DOMAIN disk :
          ~PagePrecedes(segno * SLRU_PAGES_PER_SEGMENT, c)

TruncateNoOp == UNCHANGED <<page_status, page_number, page_dirty, disk>>

\* the refusal taken with the cutoff point the code computes
C13_RefusedAtCutoffPoint ==
    [][/\ th[1].op = "truncate"
       /\ PagePrecedes(latest_page_number, TruncateCutoff(th[1].arg))
       => TruncateNoOp]_vars

\* C13: a truncate(cutoff) called while latest_page_number precedes the cutoff
\* removes no segment file and changes no slot's status, page number or dirty
\* flag; in particular, with latest_page_number = 0x10, truncate(0x80000010)
\* is refused as a wraparound and is a no-op.  (The first part is read in its
\* favour, with the cutoff point the code computes.)
C13_WraparoundRefused ==
    [][/\ th[1].op = "truncate"
       /\ \/ PagePrecedes(latest_page_number, TruncateCutoff(th[1].arg))
          \/ latest_page_number = 16 /\ th[1].arg = WrapCutoff
       => TruncateNoOp]_vars

\* ---- flush twice ----
LastCall(t) == th[t].hist.log[Len(th[t].hist.log)]

\* backend t is in a flush called right after a flush that returned
SecondFlush(t) ==
    /\ th[t].op = "flush"
    /\ th[t].hist.log # <<>>
    /\ LastCall(t).op = "flush"

\* C14: a flush called right after a flush that completed without error, no
\* slot having been dirtied or loaded in between, never is in a physical page
\* write and leaves every slot's status, page number and dirty flag, and the
\* segment files, as they were.
C14_FlushIdempotent ==
    /\ [](SecondFlush(1) => ~InWriteIO(1) /\ th[1].pc # "wp_lock")
    /\ [][SecondFlush(1) => TruncateNoOp]_vars

\* two pages were created, the first flush wrote them to two segment files,
\* and the second flush has returned
C14_Witness ==
    /\ SecondFlush(1)
    /\ th[1].pc = "ret"
    /\ Len(th[1].hist.log) = 3
    /\ th[1].hist.log[1].op = "zero"
    /\ th[1].hist.log[2].op = "zero"
    /\ Cardinality(DOMAIN disk) = 2
    /\ \A s \in Slots : page_status[s] = SLRU_PAGE_VALID /\ ~page_dirty[s]

\* ---- zero_page, write_page, eviction, read_page ----
\* backend t has returned from read_page of a page it had created with
\* zero_page, left unchanged and written with write_page
ReadBackReturned(t) ==
    /\ th[t].op = "read" /\ th[t].pc = "ret" /\ ~th[t].dirtied
    /\ th[t].pageno \in th[t].hist.stored

\* C15: for every page p, after zero_page(p), a successful write_page of its
\* slot and the eviction of p, read_page(p) returns a slot with page_number =
\* p, status VALID, dirty = false and an all-zero buffer.
C15_RoundTrip ==
    ReadBackReturned(1) =>
        LET s == th[1].slotno IN
        /\ s \in Slots
        /\ page_number[s] = th[1].pageno
        /\ page_status[s] = SLRU_PAGE_VALID
        /\ ~page_dirty[s]
        /\ page_buffer[s] = ZeroImage

\* the page was read back from a segment file that also holds a page with
\* data in it
C15_Witness ==
    /\ ReadBackReturned(1)
    /\ th[1].did_read
    /\ page_buffer[th[1].slotno] = ZeroImage
    /\ \E y \in DOMAIN disk[SegNo(th[1].pageno)] :
          disk[SegNo(th[1].pageno)][y] = DataImage

\* ---- the selector's victim ----
\* the delta the scan computes for slot s
LruDelta(s) ==
    IF cur_lru_count - page_lru_count[s] < 0 THEN 0
    ELSE cur_lru_count - page_lru_count[s]

VictimCandidates == {s \in Slots : page_number[s] # latest_page_number}

\* v is the candidate least recently used, the furthest back among equals
IsVictim(v) ==
    /\ v \in VictimCandidates
    /\ \A o \in VictimCandidates \ {v} :
          \/ LruDelta(v) > LruDelta(o)
          \/ /\ LruDelta(v) = LruDelta(o)
             /\ PagePrecedes(page_number[v], page_number[o])

\* backend t runs the selector's scan: its page is not in memory and no slot
\* is EMPTY
SelectsVictim(t) ==
    /\ th[t].pc = "sel" /\ th'[t] # th[t]
    /\ HoldingSlots(th[t].pageno) = {}
    /\ \A s \in Slots : page_status[s] # SLRU_PAGE_EMPTY
    /\ VictimCandidates # {}

\* the slot the scan settled on: returned, written out first or waited for
VictimOf(r) ==
    IF r.pc = "wp" THEN r.wslot ELSE IF r.pc = "wio_acq" THEN r.wio ELSE r.slotno

\* the four calls zero_page(0), (32), (64), (96) returned and zero_page(128)
\* has returned too
FiveZeroPages ==
    LET log == th[1].hist.log IN
    /\ th[1].op = "zero" /\ th[1].pc = "ret" /\ th[1].pageno = 128
    /\ Len(log) = 4
    /\ \A i \in 1..4 : log[i].op = "zero" /\ log[i].pageno = (i - 1) * 32

\* C16: when the requested page is not in memory and no slot is EMPTY, the
\* selector's victim is the slot, among those not holding
\* latest_page_number, with the largest delta between the current LRU count
\* and its own, ties going to the page that precedes the others; on a 4-slot
\* pool zero_page(0), (32), (64), (96), (128) evicts page 0 and leaves
\* latest_page_number = 128.
C16_LruVictim ==
    /\ [][SelectsVictim(1) => IsVictim(VictimOf(th'[1]))]_vars
    /\ [](FiveZeroPages =>
            /\ HoldingSlots(0) = {}
            /\ \A p \in {32, 64, 96, 128} : HoldingSlots(p) # {}
            /\ latest_page_number = 128)

\* the five calls have returned, page 0 written to disk on its way out
C16_Witness ==
    /\ FiveZeroPages
    /\ HoldingSlots(0) = {}
    /\ 0 \in DOMAIN disk
    /\ latest_page_number = 128

\* the selector settled on a slot that is not the first of the least recently
\* used ones in slot order, the tie going to the page further back
C16_TieWitness ==
    \E s \in Slots, o \in Slots :
        /\ th[1].pc = "zp" /\ th[1].slotno = s
        /\ o < s
        /\ page_lru_count[o] = page_lru_count[s]
        /\ page_number[o] # latest_page_number
        /\ PagePrecedes(page_number[s], page_number[o])
        /\ calls = MaxCalls
        /\ th[1].hist.log = <<>>

\* ---- read_page twice ----
\* backend t is in a read_page of the page its last call, a read_page that
\* returned, was for
SecondRead(t) ==
    /\ th[t].op = "read"
    /\ th[t].hist.log # <<>>
    /\ LastCall(t).op = "read"
    /\ LastCall(t).pageno = th[t].pageno

\* C17: a read_page(p) called right after a read_page(p) that returned slot s
\* returns s, never is in a physical read or write, acquires no per-slot
\* lock and leaves the slot's status, page number and dirty flag unchanged.
C17_SecondReadHit ==
    /\ [](SecondRead(1) =>
            /\ ~IOBusy(1)
            /\ th[1].pc = "ret" => th[1].slotno = LastCall(1).slotno)
    /\ [][SecondRead(1) /\ th[1].pc # "ret" =>
             UNCHANGED <<page_status, page_number, page_dirty, buffer_locks,
                         page_buffer, disk>>]_vars

\* the first read_page brought the page in from disk, the caller changed it,
\* and the second read_page has returned the same slot, still dirty
C17_Witness ==
    /\ SecondRead(1)
    /\ th[1].pc = "ret" /\ ~th[1].dirtied
    /\ th[1].slotno = LastCall(1).slotno
    /\ LastCall(1).dirtied
    /\ page_dirty[th[1].slotno]
    /\ page_buffer[th[1].slotno] = DataImage
    /\ page_status[th[1].slotno] = SLRU_PAGE_VALID

\* ---- WAL before data ----
\* backend t determines the slot's largest LSN and flushes the WAL in this step
WalStep(t) == th[t].pc = "wp_wal" /\ th'[t].pc = "wp_io"
\* backend t writes the page's bytes to its segment file in this step
WriteStep(t) == th[t].pc = "wp_io" /\ th'[t].pc = "wp_fin"

C18_WalCoversSlotAtWrite ==
    [][\A t \in Threads :
         WriteStep(t) => wal_flushed >= MaxGroupLsn(group_lsn[th[t].wslot])]_vars

FailedHandles(t) ==
    {i \in 1..Len(th[t].fdata) : th[t].fdata[i].fsync = "failed"}

\* the flush of backend t reports an I/O error after a failed fsync
FlushFsyncError(t) ==
    th[t].op = "flush" /\ th[t].pc = "raise" /\ FailedHandles(t) # {}

\* every file of the flush context was fsync-attempted and is closed
AllHandlesDone(t) ==
    \A i \in 1..Len(th[t].fdata) :
        ~th[t].fdata[i].open /\ th[t].fdata[i].fsync # "none"

\* no error is reported before the last file is done
OneFsyncError(t) ==
    th[t].op = "flush" /\ FailedHandles(t) # {} /\ th[t].pc # "raise"
        => th[t].pc = "fl_sync"

\* C19 as stated: after failed fsyncs at the end of flush every handle was
\* fsync-attempted and closed, one I/O error is raised, and the page number it
\* reports is that of the first segment, in handle order, whose fsync failed.
C19_FsyncFailure_First ==
    /\ OneFsyncError(1)
    /\ FlushFsyncError(1) =>
          /\ AllHandlesDone(1)
          /\ th[1].errpageno =
                th[1].fdata[Min(FailedHandles(1))].segno * SLRU_PAGES_PER_SEGMENT

\* C19: after failed fsyncs at the end of flush every handle was
\* fsync-attempted and closed, one I/O error is raised, and the page number it
\* reports is that of the last segment, in handle order, whose fsync failed.
C19_FsyncFailure ==
    /\ OneFsyncError(1)
    /\ FlushFsyncError(1) =>
          /\ AllHandlesDone(1)
          /\ th[1].errpageno =
                th[1].fdata[Max(FailedHandles(1))].segno * SLRU_PAGES_PER_SEGMENT

\* a flush wrote pages of two segments, both fsyncs failed, and the error
\* names the second segment
C19_Witness ==
    /\ FlushFsyncError(1)
    /\ Len(th[1].fdata) = 2
    /\ FailedHandles(1) = {1, 2}
    /\ AllHandlesDone(1)
    /\ th[1].fdata[1].segno # th[1].fdata[2].segno
    /\ th[1].errpageno = th[1].fdata[2].segno * SLRU_PAGES_PER_SEGMENT

\* ---- the control lock at entry and exit ----
\* labels inside zero_page, read_page, write_page and the selector at which
\* the routine runs under the control lock
ControlLabels == {"sel", "zp", "rp_sel", "wp", "wp_loop"}
ExistsLabels == {"ex_sel", "ex_lock", "ex_io", "ex_fin", "ex_unlock"}

\* backend t returns in this step from zero_page, read_page (valid = NULL),
\* write_page, the selector or wait-for-I/O to the routine that called it
ReturnStep(t) ==
    /\ th[t].stack # <<>>
    /\ th'[t].pc = Head(th[t].stack)
    /\ th'[t].stack = Tail(th[t].stack)
    /\ th[t].pc \notin ExistsLabels
    /\ ~(th[t].pc \in ReadLabels /\ th[t].valid)

\* backend t enters wait-for-I/O in this step
WaitEntryStep(t) == th[t].pc # "wio_acq" /\ th'[t].pc = "wio_acq"

\* C20: zero_page, read_page, write_page, the selector and wait-for-I/O are
\* entered with the control lock held exclusively by the caller and, on every
\* normal return, the caller again holds it exclusively, also after the
\* routine released it to wait or to do I/O.
C20_ControlLockAtEntryAndExit ==
    /\ [](\A t \in Threads :
            /\ th[t].pc \in ControlLabels => ControlLock[t] = "exclusive"
            /\ th[t].pc = "ret" /\ th[t].op \in {"zero", "read", "write"}
                 => ControlLock[t] = "exclusive")
    /\ [][\A t \in Threads :
            /\ WaitEntryStep(t) => ControlLock[t] = "exclusive"
            /\ ReturnStep(t) => ControlLock'[t] = "exclusive"]_vars

\* read_page has returned after a physical read, for which it had released
\* the control lock, while the other backend waits for that lock
C20_Witness ==
    \E t \in Threads, u \in Threads :
        /\ th[t].op = "read" /\ th[t].pc = "ret" /\ th[t].did_read
        /\ ControlLock[t] = "exclusive"
        /\ u # t
        /\ th[u].pc \in {"wp_fin", "rp_fin", "wio_ctl"}
\* ---- the flush context ----
\* a physical write of a flush is about to need a file the full context
\* does not hold
NeedsFileWhenFull(t) ==
    /\ th[t].pc = "wp_io"
    /\ th[t].op = "flush"
    /\ FlushTableFull(th[t].fdata)
    /\ ~Registered(th[t].fdata, SegNo(th[t].wpageno))
FdataSegnos(t) == [i \in DOMAIN th[t].fdata |-> th[t].fdata[i].segno]

\* C21: during a flush the flush context never holds more than
\* MAX_FLUSH_BUFFERS (16) files; a write that needs a new file when the
\* context is full opens one for itself, which it fsyncs (do_fsync) and
\* closes, and that file is never entered in the context.
C21_FlushHandlesBounded ==
    /\ [](\A t \in Threads : Len(th[t].fdata) <= MAX_FLUSH_BUFFERS)
    /\ [][\A t \in Threads :
            NeedsFileWhenFull(t) /\ th'[t].pc = "wp_fin" =>
               /\ FdataSegnos(t)' = FdataSegnos(t)
               /\ th'[t].ok =>
                      th'[t].shot = IF do_fsync THEN "fsynced_closed" ELSE "closed"
               /\ ~th'[t].ok /\ disk' # disk =>
                      th'[t].shot \in {"fsynced_closed", "closed"}]_vars

\* the seventeenth segment of a flush has been written through a file of
\* its own; the context holds sixteen
C21_Witness ==
    \E t \in Threads :
        /\ th[t].pc = "wp_fin"
        /\ th[t].op = "flush"
        /\ th[t].ok
        /\ Len(th[t].fdata) = MAX_FLUSH_BUFFERS
        /\ th[t].shot = "fsynced_closed"
        /\ ~Registered(th[t].fdata, SegNo(th[t].wpageno))

\* ---- the order of lock acquisition ----
AcquiresControl(t) == ControlLock[t] = "none" /\ ControlLock'[t] # "none"
AcquiresSlot(t, s) == buffer_locks[s][t] = "none" /\ buffer_locks'[s][t] # "none"
HeldSlots(t) == {s \in Slots : buffer_locks[s][t] # "none"}
EndOfIO(t) == th[t].pc \in {"rp_fin", "ex_fin", "wp_fin"}

\* C22 as stated: no backend requests the control lock while it holds a
\* per-buffer lock.
C22_NoControlRequestUnderSlotLock ==
    [][\A t \in Threads : AcquiresControl(t) => HeldSlots(t) = {}]_vars

\* C22: a backend acquires a per-buffer lock exclusively only while it holds
\* the control lock exclusively and no other per-buffer lock, and in shared
\* mode only while it holds no lock at all; it requests the control lock
\* while holding a per-buffer lock only at the end of its own I/O, holding
\* that one lock exclusively.
C22_LockOrder ==
    [][\A t \in Threads :
          /\ AcquiresControl(t) /\ HeldSlots(t) # {} =>
                 /\ EndOfIO(t)
                 /\ HeldSlots(t) = {IOSlot(t)}
                 /\ buffer_locks[IOSlot(t)][t] = "exclusive"
          /\ \A s \in Slots : AcquiresSlot(t, s) =>
                 /\ HeldSlots(t) = {}
                 /\ IF buffer_locks'[s][t] = "exclusive"
                    THEN ControlLock[t] = "exclusive"
                    ELSE ControlLock[t] = "none"]_vars

\* a backend has taken the control lock again at the end of its read, still
\* holding the per-buffer lock, while another waits for that read
C22_Witness ==
    \E t \in Threads, u \in Threads :
        /\ th[t].pc = "rp_unlock"
        /\ ControlLock[t] = "exclusive"
        /\ buffer_locks[th[t].slotno][t] = "exclusive"
        /\ th[u].pc = "wio_acq"
        /\ th[u].wio = th[t].slotno

\* ---- starting an I/O ----
\* the slot is marked *_IN_PROGRESS and the backend, holding the control
\* lock, is at LWLockAcquire(buffer_locks[slotno], LW_EXCLUSIVE)
StartsIO(t) == th[t].pc \in {"rp_lock", "ex_lock", "wp_lock"}

\* C23: the exclusive acquisition of the per-buffer lock by a backend that
\* starts a read or a write never blocks: no other backend holds that lock
\* in any mode at that moment, backends inside SimpleLruWaitIO included.
C23_StartNeverBlocks ==
    \A t \in Threads :
        StartsIO(t) => LockFree(buffer_locks[IOSlot(t)])

\* the same for exclusive holders alone; it does not hold either: a backend
\* still doing I/O on the slot holds the lock when SimpleLruZeroPage of the
\* page it reads has made the slot VALID and dirty and a write of it starts
C23_NoExclusiveHolderAtStart ==
    \A t \in Threads :
        StartsIO(t) => LockNoExclusive(buffer_locks[IOSlot(t)])

\* ---- waiting for locks ----
\* the backend is at an LWLockAcquire of the control lock
WantsControl(t) == th[t].pc \in {"rp_fin", "ex_fin", "wp_fin", "wio_ctl", "ro_upg"}
\* the backend is at the LWLockAcquire of SimpleLruWaitIO
WantsSlotShared(t) == th[t].pc = "wio_acq"
\* backend t cannot go on before backend u releases a lock
WaitsOn(t, u) ==
    /\ t # u
    /\ \/ WantsControl(t) /\ ControlLock[u] # "none"
       \/ StartsIO(t) /\ buffer_locks[IOSlot(t)][u] # "none"
       \/ WantsSlotShared(t) /\ buffer_locks[th[t].wio][u] = "exclusive"
\* backends that each wait for a lock another of them holds
LockCycle(S) == S # {} /\ \A t \in S : \E u \in S : WaitsOn(t, u)

\* C24: the two-level locking is deadlock-free: in no reachable state does
\* a set of backends wait for the control lock or a per-buffer lock in a
\* cycle, whatever the interleaving of zero_page, read_page,
\* read_page_readonly, page_exists, write_page, flush and truncate.
C24_NoLockCycle == \A S \in SUBSET Threads : ~LockCycle(S)

\* C25: whenever no backend holds the control lock exclusively, every slot
\* that is EMPTY or READ_IN_PROGRESS has page_dirty = false, failed reads
\* and SimpleLruZeroPage of a page already in a slot included.
C25_EmptyOrReadingIsClean ==
    NoExclusiveControl =>
        \A s \in Slots :
            page_status[s] \in {SLRU_PAGE_EMPTY, SLRU_PAGE_READ_IN_PROGRESS}
                => ~page_dirty[s]

\* ---- the ways into EMPTY ----
BecomesEmpty(s) ==
    page_status[s] # SLRU_PAGE_EMPTY /\ page_status'[s] = SLRU_PAGE_EMPTY
Steps(t) == th'[t] # th[t]
\* the end of a physical read of slot s that failed
FailedReadOf(s) ==
    \E t \in Threads :
        /\ th[t].pc \in {"rp_fin", "ex_fin"} /\ Steps(t)
        /\ th[t].slotno = s
        /\ ~th[t].ok
\* SimpleLruWaitIO finds the read dead: still in progress, its lock free
DeadReadRollback(s) ==
    \E t \in Threads :
        /\ th[t].pc = "wio_ctl" /\ Steps(t)
        /\ th[t].wio = s
        /\ page_status[s] = SLRU_PAGE_READ_IN_PROGRESS
        /\ LockNoExclusive(buffer_locks[s])
\* truncate drops a clean page that precedes its cutoff
TruncateEmpties(s) ==
    \E t \in Threads :
        /\ th[t].pc = "tr_scan" /\ Steps(t)
        /\ page_status[s] = SLRU_PAGE_VALID
        /\ ~page_dirty[s]
        /\ PagePrecedes(page_number[s], th[t].cutoff)
\* the caller of the selector takes over a slot that holds another page
Evicts(t) ==
    /\ th[t].pc \in {"zp", "rp_sel", "ex_sel"} /\ Steps(t)
    /\ page_status[th[t].slotno] # SLRU_PAGE_EMPTY
    /\ page_number[th[t].slotno] # th[t].pageno

\* C26: a slot becomes EMPTY only by a failed physical read of it, by the
\* dead-I/O recovery of SimpleLruWaitIO, or by truncate dropping a VALID and
\* clean slot; a slot taken over for another page goes from VALID and clean
\* straight to READ_IN_PROGRESS or VALID, and a write never ends in EMPTY.
C26_WaysIntoEmpty ==
    [][/\ \A s \in Slots :
            BecomesEmpty(s) =>
                FailedReadOf(s) \/ DeadReadRollback(s) \/ TruncateEmpties(s)
       /\ \A t \in Threads :
            /\ Evicts(t) =>
                  /\ page_status[th[t].slotno] = SLRU_PAGE_VALID
                  /\ ~page_dirty[th[t].slotno]
                  /\ page_status'[th[t].slotno] \in
                         {SLRU_PAGE_READ_IN_PROGRESS, SLRU_PAGE_VALID}
            /\ th[t].pc = "wp_fin" /\ Steps(t) =>
                  page_status'[th[t].wslot] = SLRU_PAGE_VALID]_vars

\* a failed read has just emptied its slot while a truncate, which dropped
\* nothing or a clean page, is removing segment files
C26_Witness ==
    \E t \in Threads, u \in Threads :
        /\ th[t].pc \in {"rp_unlock", "ex_unlock"}
        /\ ~th[t].ok
        /\ page_status[th[t].slotno] = SLRU_PAGE_EMPTY
        /\ th[u].op = "truncate"
        /\ th[u].pc = "tr_dir"

\* ---- the LRU counts ----
\* the slots the selector's scan looks at: those before the first EMPTY one
Scanned == {s \in Slots : \A s2 \in 0..s : page_status[s2] # SLRU_PAGE_EMPTY}
\* the selector scans for a victim
ScansForVictim(t) ==
    /\ th[t].pc = "sel" /\ Steps(t)
    /\ HoldingSlots(th[t].pageno) = {}

\* C27 as stated: whenever the control lock is not held exclusively,
\* page_lru_count[i] <= cur_lru_count, by signed difference, for every slot,
\* also when backends run SlruRecentlyUsed at once under the shared lock.
C27_CountAtMostCurrent ==
    NoExclusiveControl =>
        \A s \in Slots : Sub32(cur_lru_count, page_lru_count[s]) >= 0

\* C27: the selector's scan leaves page_lru_count[i] < cur_lru_count for
\* every slot it looks at, a count it finds ahead of the count it scans with
\* being set back to that count; between scans, SlruRecentlyUsed run at once
\* by backends under the shared lock can leave a count ahead of
\* cur_lru_count.
C27_ScanBacksOff ==
    [][\A t \in Threads :
          ScansForVictim(t) =>
             /\ cur_lru_count' = cur_lru_count + 1
             /\ \A s \in Scanned :
                   /\ Sub32(cur_lru_count', page_lru_count'[s]) > 0
                   /\ page_lru_count'[s] =
                         IF Sub32(cur_lru_count, page_lru_count[s]) < 0
                         THEN cur_lru_count ELSE page_lru_count[s]]_vars

\* the selector has set back a count that two backends' concurrent
\* SlruRecentlyUsed had left ahead of cur_lru_count
C27_Witness ==
    \E t \in Threads :
        /\ th[t].lru_reset
        /\ th[t].pc = "rp_sel"
        /\ th[t].op = "readonly"

\* ---- what the selector returns ----
\* C28: the slot the selector returns for pageno either holds pageno and is
\* not EMPTY, or is EMPTY, or is VALID and clean, at the moment of the
\* return with the control lock held since the last scan; it is never a
\* dirty or *_IN_PROGRESS slot holding another page.
C28_SelectorReturnsUsableSlot ==
    \A t \in Threads :
        SelectReturned(t) =>
            LET s == th[t].slotno IN
            /\ s \in Slots
            /\ ControlLock[t] = "exclusive"
            /\ \/ page_number[s] = th[t].pageno /\ page_status[s] # SLRU_PAGE_EMPTY
               \/ page_status[s] = SLRU_PAGE_EMPTY
               \/ page_status[s] = SLRU_PAGE_VALID /\ ~page_dirty[s]

\* the selector returns a slot holding another page, which it has found
\* dirty and written out, so that the page is clean and on disk
C28_Witness ==
    \E t \in Threads :
        /\ SelectReturned(t)
        /\ page_status[th[t].slotno] = SLRU_PAGE_VALID
        /\ page_number[th[t].slotno] # th[t].pageno
        /\ SegNo(page_number[th[t].slotno]) \in DOMAIN disk
        /\ ~page_dirty[th[t].slotno]

\* ---- a slot during its I/O ----
\* the backend doing the I/O of slot s makes its final status change
EndsIOOf(t, s) == EndOfIO(t) /\ Steps(t) /\ IOSlot(t) = s
\* what the code asserts once it has the control lock again
ReadAssert(t) ==
    /\ page_number[th[t].slotno] = th[t].pageno
    /\ page_status[th[t].slotno] = SLRU_PAGE_READ_IN_PROGRESS
    /\ ~page_dirty[th[t].slotno]
WriteAssert(t) ==
    /\ page_number[th[t].wslot] = th[t].wpageno
    /\ page_status[th[t].wslot] = SLRU_PAGE_WRITE_IN_PROGRESS

\* C29: while a slot is READ_IN_PROGRESS or WRITE_IN_PROGRESS only the
\* backend doing the I/O changes its page number or status, so that this
\* backend, when it has the control lock again, finds the same page with
\* the same status (and not dirty, for a read), as the code asserts; also
\* when another backend calls SimpleLruZeroPage for that page.
C29_InProgressSlotUntouched ==
    [][/\ \A s \in Slots :
            /\ InProgress(s)
            /\ \/ page_status'[s] # page_status[s]
               \/ page_number'[s] # page_number[s]
            => \E t \in Threads : EndsIOOf(t, s)
       /\ \A t \in Threads :
            /\ th[t].pc \in {"rp_fin", "ex_fin"} /\ Steps(t) => ReadAssert(t)
            /\ th[t].pc = "wp_fin" /\ Steps(t) => WriteAssert(t)]_vars

\* ---- a read of a page whose segment file does not exist ----
\* the physical read of backend t found no file
ReadFoundNoFile(t) == th[t].in_recovery # "unread"

\* C30: a physical read whose segment file does not exist succeeds, with
\* the buffer all zeroes and the slot ending VALID and clean, if and only if
\* InRecovery is set; otherwise it fails with cause SLRU_OPEN_FAILED and the
\* slot ends EMPTY.
C30_MissingFileRead ==
    /\ [](\A t \in Threads :
            th[t].pc = "rp_unlock" /\ ReadFoundNoFile(t) =>
               LET s == th[t].slotno IN
               /\ th[t].ok <=> th[t].in_recovery = "yes"
               /\ th[t].ok =>
                     /\ page_buffer[s] = ZeroImage
                     /\ page_status[s] = SLRU_PAGE_VALID
                     /\ ~page_dirty[s]
                     /\ th[t].errcause = NoError
               /\ ~th[t].ok =>
                     /\ page_status[s] = SLRU_PAGE_EMPTY
                     /\ th[t].errcause = SLRU_OPEN_FAILED)
    /\ [][\A t \in Threads :
            th[t].pc = "rp_io" /\ Steps(t) =>
               (ReadFoundNoFile(t)' <=> SegNo(th[t].pageno) \notin DOMAIN disk)]_vars

\* both outcomes: the read of a page whose file is missing has failed
\* outside recovery, after an earlier read of a missing file was answered
\* with zeroes in recovery
C30_Witness ==
    \E t \in Threads :
        /\ th[t].pc = "rp_unlock"
        /\ th[t].in_recovery = "no"
        /\ th[t].errcause = SLRU_OPEN_FAILED
        /\ \E i \in DOMAIN th[t].hist.log :
              /\ th[t].hist.log[i].op = "read"
              /\ page_status[th[t].hist.log[i].slotno] = SLRU_PAGE_VALID
              /\ disk = NoFiles

\* ---- the segment of the cutoff page ----
\* backend t is in truncate(cutoff) or scan_directory(cutoff, true) with a
\* non-negative cutoff page
CutsAt(t) == th[t].op \in {"truncate", "scandir"} /\ th[t].arg >= 0

\* slot s holds a page of the segment of the page c
InSegmentOf(s, c) ==
    /\ page_status[s] # SLRU_PAGE_EMPTY
    /\ page_number[s] >= 0
    /\ SegNo(page_number[s]) = SegNo(c)

LoadsPage(s) ==
    /\ page_status'[s] = SLRU_PAGE_VALID
    /\ \/ page_status[s] = SLRU_PAGE_READ_IN_PROGRESS
       \/ \E t \in Threads :
             th[t].pc = "zp" /\ th[t].slotno = s /\ th'[t].pc # "zp"

\* the backend whose step ends the read of slot s
LoadedBy(s, op) ==
    \E t \in Threads : th[t].op = op /\ th[t].slotno = s /\ th'[t] # th[t]

\* C32: whenever a slot becomes VALID with a page created by zero_page or read
\* from disk (by read_page, read_page_readonly or page_exists), all group LSNs
\* of the slot are zero.
C32_LsnsZeroWhenValid ==
    [][\A s \in Slots : LoadsPage(s) => group_lsn'[s] = SimpleLruZeroLSNs]_vars

\* the same for the pages that page_exists did not read in
C32_LsnsZeroUnlessExists ==
    [][\A s \in Slots :
          LoadsPage(s) /\ ~LoadedBy(s, "exists")
          => group_lsn'[s] = SimpleLruZeroLSNs]_vars

\* ---- dirty pages ----
\* slot s holds changes that are not on disk, or is being written
HoldsDirtyPage(s) ==
    \/ page_status[s] = SLRU_PAGE_VALID /\ page_dirty[s]
    \/ page_status[s] = SLRU_PAGE_WRITE_IN_PROGRESS

\* C33: a slot that is VALID and dirty, or WRITE_IN_PROGRESS, is not set to
\* EMPTY and is not given another page number by any step; it is first made
\* VALID and clean by a write that succeeded with no re-dirty since it began.
C33_DirtyNeverDiscarded ==
    [][\A s \in Slots :
          HoldsDirtyPage(s)
          => /\ page_status'[s] # SLRU_PAGE_EMPTY
             /\ page_number'[s] = page_number[s]]_vars

\* ---- the recovery branch of SimpleLruWaitIO ----
\* backend t, waiting for the I/O of a slot, gets the control lock back
WaiterBack(t) == th[t].pc = "wio_ctl" /\ th'[t].pc # "wio_ctl"

\* slot s is locked exclusively by another backend, which is doing I/O on it
LockedByIOThread(t, s) ==
    \E u \in Threads \ {t} :
        /\ buffer_locks[s][u] = "exclusive"
        /\ IOBusy(u)
        /\ IOSlot(u) = s

\* C34: no failed I/O leaves a slot in progress (a backend that fails resets
\* the status before it releases the per-buffer lock), so whenever a waiter
\* has re-acquired the control lock and finds the slot READ_IN_PROGRESS or
\* WRITE_IN_PROGRESS, the per-buffer lock is held exclusively by the backend
\* doing that I/O: the conditional shared acquire fails and the recovery
\* branch is not taken.
C34_NoRollback ==
    [][\A t \in Threads :
          WaiterBack(t) /\ InProgress(th[t].wio)
          => /\ LockedByIOThread(t, th[t].wio)
             /\ page_status'[th[t].wio] = page_status[th[t].wio]
             /\ page_dirty'[th[t].wio] = page_dirty[th[t].wio]]_vars

\* a waiter is about to get the control lock back while a new I/O on the slot
\* it waited for is in progress
C34_Witness ==
    \E t \in Threads :
        /\ th[t].pc = "wio_ctl"
        /\ LockFree(ControlLock)
        /\ InProgress(th[t].wio)
        /\ LockedByIOThread(t, th[t].wio)

\* ---- termination ----
\* backend t is inside an operation: it has been called and has neither
\* returned nor raised an error
InCall(t) == th[t].pc \notin {"idle", "ret"}

\* C35: under fair scheduling every call of zero_page, read_page, write_page,
\* flush and truncate eventually returns (or ends with an error).
C35_EveryCallReturns == \A t \in Threads : InCall(t) ~> ~InCall(t)

\* ---- page_exists ----
\* backend t, inside page_exists, goes to report an I/O error in this step
ExistsRaises(t) ==
    th[t].op = "exists" /\ th[t].pc # "raise" /\ th'[t].pc = "raise"

\* backend t returns from page_exists in this step
ExistsReturns(t) ==
    th[t].op = "exists" /\ th[t].pc # "ret" /\ th'[t].pc = "ret"

\* page_exists finds its page in the slot the selector gave it, not being read
ExistsFinds(t) ==
    /\ th[t].op = "exists" /\ th[t].pc = "ex_sel"
    /\ th'[t] # th[t]
    /\ page_number[th[t].slotno] = th[t].pageno
    /\ page_status[th[t].slotno]
         \in {SLRU_PAGE_VALID, SLRU_PAGE_WRITE_IN_PROGRESS}

====
